---- MODULE Spec2Model ----
(***************************************************************************)
(* Expense tracker REST API (Django REST Framework): the expense ledger    *)
(* (ExpenseViewSet, ExpenseSerializer, Expense), the JWT session endpoints *)
(* (LoginView, LogoutView), the account endpoints (RegisterView,           *)
(* UserProfileView, ChangePasswordView) and the users table with its       *)
(* manager (CustomUser, CustomUserManager).                                *)
(*                                                                         *)
(* Money is a Decimal with two decimal places, kept as whole units and     *)
(* hundredths (the hundredths of 99999999.99 do not fit a 32-bit integer); *)
(* dates are whole days.  One HTTP request is in flight at a time: Receive *)
(* puts it in req, exactly one handler action answers it in resp, Respond  *)
(* hands the response back.  Where concurrency matters two workers serve   *)
(* requests step by step; what each holds is in flight.                    *)
(***************************************************************************)
EXTENDS Integers, Sequences, FiniteSets, TLC

VARIABLES users, expenses, nextExpenseId, today, outstanding, blacklist, pc, req, resp,
          flight

vars == <<users, expenses, nextExpenseId, today, outstanding, blacklist, pc, req, resp,
          flight>>

(***************************************************************************)
(* Bounds of the model.                                                    *)
(***************************************************************************)
MaxExpenses == 2
MaxValidExpenses == 1
MaxDay == 1
MaxTokens == 2
MaxStatsExpenses == 2
MaxUsers == 4

(***************************************************************************)
(* Decimal(u.c): value u + c/100 with 0 <= c < 100 (so -0.50 is u=-1, c=50).*)
(***************************************************************************)
Dec(u, c) == [u |-> u, c |-> c]

Zero == Dec(0, 0)

Lt(a, b) == a.u < b.u \/ (a.u = b.u /\ a.c < b.c)

Le(a, b) == a = b \/ Lt(a, b)

Add(a, b) == Dec(a.u + b.u + ((a.c + b.c) \div 100), (a.c + b.c) % 100)

Neg(a) == IF a.c = 0 THEN Dec(-a.u, 0) ELSE Dec(-a.u - 1, 100 - a.c)

(***************************************************************************)
(* Program constants.                                                      *)
(***************************************************************************)
\* validate(): amount > 1000000 needs a description.
LargeAmount == Dec(1000000, 0)
\* Expense.amount: max_digits=10, decimal_places=2, so at most 99999999.99.
MaxAmount == Dec(99999999, 99)
\* Expense.amount: MinValueValidator(0.01).  The limit is the binary float
\* 0.01, slightly above the decimal 0.01, so Decimal("0.01") < 0.01 holds and
\* the smallest amount the validator lets through is 0.02.
MinAmount == Dec(0, 2)
\* ExpenseStatsSerializer: DecimalField(max_digits=10, decimal_places=2).
StatsMaxValue == Dec(99999999, 99)
\* request.user of a request without bearer credentials.
Anonymous == 0

\* Python None / SQL NULL, and a present value: a set of at most one element.
None == {}

Some(s) == {s}

\* Python truthiness of an optional text: None and "" are falsy.
Truthy(d) == d # None /\ d # Some("")

\* Expense.CATEGORY_CHOICES (code, label); the labels are written without accents.
CATEGORY_CHOICES ==
    <<  <<"GROCERIES", "Comestibles">>,
        <<"LEISURE", "Entretenimiento">>,
        <<"ELECTRONICS", "Electronicos">>,
        <<"UTILITIES", "Servicios Publicos">>,
        <<"CLOTHING", "Ropa">>,
        <<"HEALTH", "Salud">>,
        <<"OTHERS", "Otros">> >>

CategoryCodes == {CATEGORY_CHOICES[i][1] : i \in DOMAIN CATEGORY_CHOICES}

CategoryLabels == {CATEGORY_CHOICES[i][2] : i \in DOMAIN CATEGORY_CHOICES}

(***************************************************************************)
(* Requests and responses.                                                 *)
(***************************************************************************)
\* A JSON body for the expense endpoints: `fields` names the keys present.
Body(fields, user, title, amount, category, description, date) ==
    [fields |-> fields, user |-> user, title |-> title, amount |-> amount,
     category |-> category, description |-> description, date |-> date]

EmptyBody == Body({}, 0, "", Zero, "", None, 0)

\* refresh: 0 no token in the body, -1 a string that is no token, n > 0 the
\* refresh token whose identifier (jti) is n.
Request(op, by, target, body, email, password, refresh) ==
    [op |-> op, by |-> by, target |-> target, body |-> body,
     email |-> email, password |-> password, refresh |-> refresh]

NoReq == Request("none", Anonymous, 0, EmptyBody, "", "", 0)

NoStats ==
    [total_expenses |-> 0, total_amount |-> Zero, average_amount |-> Zero,
     by_category |-> [l \in {} |-> Zero]]

\* id: the expense a create/retrieve/update returns; access: the user id borne
\* by an issued access token; refresh: the jti of an issued refresh token.
Response(status, errors, id, results, stats, access, refresh) ==
    [status |-> status, errors |-> errors, id |-> id, results |-> results,
     stats |-> stats, access |-> access, refresh |-> refresh]

NoResp == Response(0, {}, 0, <<>>, NoStats, 0, 0)

Status(status) == Response(status, {}, 0, <<>>, NoStats, 0, 0)

Invalid(errors) == Response(400, errors, 0, <<>>, NoStats, 0, 0)

(***************************************************************************)
(* Authentication and the ownership-scoped queryset.                       *)
(***************************************************************************)
\* set_password: only a one-way hash of the raw password is stored.
make_password(raw) == <<"hash", raw>>

\* check_password: the candidate hashes to the stored value.
check_password(raw, encoded) == encoded = make_password(raw)

\* JWTAuthentication + IsAuthenticated: the bearer token names a stored,
\* active user.
IsAuthenticated(us, by) == by \in DOMAIN us /\ us[by].is_active

get_queryset_all(store, by) == DOMAIN store

get_queryset(store, by) == {i \in DOMAIN store : store[i].user = by}

has_object_permission(store, i, by) == store[i].user = by

\* get_object(): 404 unless the id is in the scoped queryset, then the object
\* permission (403 when denied).
ObjectStatus(store, by, target) ==
    IF target \notin get_queryset(store, by) THEN 404
    ELSE IF ~has_object_permission(store, target, by) THEN 403
    ELSE 200

(***************************************************************************)
(* ExpenseSerializer: the field validators, then validate().               *)
(***************************************************************************)
\* DecimalField(max_digits=10, decimal_places=2): at most 8 whole digits.
MaxDigitsOk(value) == Le(value, MaxAmount) /\ Le(Neg(value), MaxAmount)

\* MinValueValidator(0.01), carried over to the serializer field as min_value.
MinValueOk(value) == ~Lt(value, MinAmount)

\* validate_amount passes unless value <= 0.
validate_amount(value) == ~Le(value, Zero)

AmountFieldLax(value) == MaxDigitsOk(value)

\* The whole amount field: precision, min_value, then validate_amount.
AmountField(value) == MaxDigitsOk(value) /\ MinValueOk(value) /\ validate_amount(value)

validate_date_lax(value, now) == ~(value > now + 1)

\* validate_date passes unless value > timezone.now().date().
validate_date(value, now) == ~(value > now)

\* A field that is required and missing (partial updates skip missing fields).
Missing(body, f, partial) == f \notin body.fields /\ ~partial

\* The keys of the field-level errors; they are collected over all fields.
FieldErrors(body, partial, now) ==
    {f \in {"title", "amount", "category", "date"} :
        \/ Missing(body, f, partial)
        \/ /\ f \in body.fields
           /\ \/ f = "title" /\ body.title = ""
              \/ f = "amount" /\ ~AmountField(body.amount)
              \/ f = "category" /\ body.category \notin CategoryCodes
              \/ f = "date" /\ ~validate_date(body.date, now)}

\* attrs.get('description'): None when the key was not submitted.
AttrDescription(body) ==
    IF "description" \in body.fields THEN body.description ELSE None

validate_inclusive(body) ==
    IF /\ "amount" \in body.fields
       /\ body.amount # Zero
       /\ Le(LargeAmount, body.amount)
       /\ ~Truthy(AttrDescription(body))
    THEN {"description"} ELSE {}

\* validate(attrs): `amount and amount > 1000000 and not description`, read
\* from the submitted attributes only (attrs.get gives None for a missing key).
validate(body) ==
    IF /\ "amount" \in body.fields
       /\ body.amount # Zero
       /\ Lt(LargeAmount, body.amount)
       /\ ~Truthy(AttrDescription(body))
    THEN {"description"} ELSE {}

\* is_valid(): validate() runs only when every field passed.
Errors(body, partial, now) ==
    LET fe == FieldErrors(body, partial, now)
    IN  IF fe # {} THEN fe ELSE validate(body)

(***************************************************************************)
(* Saving.                                                                 *)
(***************************************************************************)
Put(store, id, rec) ==
    [i \in DOMAIN store \cup {id} |-> IF i = id THEN rec ELSE store[i]]

Remove(store, ids) == [i \in DOMAIN store \ ids |-> store[i]]

\* The Expense a create stores: `user` is read-only in the serializer, so the
\* body's value never reaches validated_data; an omitted description is NULL.
NewExpense(owner, body) ==
    [user |-> owner, title |-> body.title, amount |-> body.amount,
     category |-> body.category, description |-> AttrDescription(body),
     date |-> body.date]

perform_create_from_body(store, id, by, body) ==
    Put(store, id,
        NewExpense(IF "user" \in body.fields THEN body.user ELSE by, body))

\* serializer.save(user=self.request.user)
perform_create(store, id, by, body) == Put(store, id, NewExpense(by, body))

ModelSerializer_update_with_user(old, body) ==
    [user |-> IF "user" \in body.fields THEN body.user ELSE old.user,
     title |-> IF "title" \in body.fields THEN body.title ELSE old.title,
     amount |-> IF "amount" \in body.fields THEN body.amount ELSE old.amount,
     category |-> IF "category" \in body.fields THEN body.category ELSE old.category,
     description |-> IF "description" \in body.fields THEN body.description
                     ELSE old.description,
     date |-> IF "date" \in body.fields THEN body.date ELSE old.date]

\* ModelSerializer.update: every submitted writable attribute is set on the
\* instance; user is read-only and stays.
ModelSerializer_update(old, body) ==
    [user |-> old.user,
     title |-> IF "title" \in body.fields THEN body.title ELSE old.title,
     amount |-> IF "amount" \in body.fields THEN body.amount ELSE old.amount,
     category |-> IF "category" \in body.fields THEN body.category ELSE old.category,
     description |-> IF "description" \in body.fields THEN body.description
                     ELSE old.description,
     date |-> IF "date" \in body.fields THEN body.date ELSE old.date]

\* perform_update: serializer.save() on the instance get_object() returned.
perform_update(store, id, body) == Put(store, id, ModelSerializer_update(store[id], body))

(***************************************************************************)
(* Aggregation (stats) and listing.                                        *)
(***************************************************************************)
RECURSIVE SumAmounts(_, _)
SumAmounts(store, ids) ==
    IF ids = {} THEN Zero
    ELSE LET i == CHOOSE x \in ids : TRUE
         IN  Add(store[i].amount, SumAmounts(store, ids \ {i}))

\* Sum('amount'): NULL over no rows.
AggSum(store, ids) == IF ids = {} THEN None ELSE Some(SumAmounts(store, ids))

\* t / n quantized to two decimals, ties to even (the decimal context's
\* default rounding), for t >= 0.
Quantize(t, n) ==
    LET rest == 100 * (t.u % n) + t.c
        q == rest \div n
        r == rest % n
        down == Dec((t.u \div n) + (q \div 100), q % 100)
        up == Add(down, Dec(0, 1))
    IN  IF 2 * r < n THEN down
        ELSE IF 2 * r > n THEN up
        ELSE IF q % 2 = 0 THEN down ELSE up

\* Avg('amount') as the serializer's DecimalField renders it.  NULL over no rows.
AggAvg(store, ids) ==
    IF ids = {} THEN None
    ELSE Some(Quantize(SumAmounts(store, ids), Cardinality(ids)))

\* The value of a non-NULL aggregate.
The(v) == CHOOSE x \in v : TRUE

LabelCode(label) ==
    CATEGORY_CHOICES[CHOOSE i \in DOMAIN CATEGORY_CHOICES :
                        CATEGORY_CHOICES[i][2] = label][1]

\* The loop over Expense.CATEGORY_CHOICES: `category_total['total'] or 0`.
by_category(store, ids) ==
    [l \in CategoryLabels |->
        LET t == AggSum(store, {i \in ids : store[i].category = LabelCode(l)})
        IN  IF t = None \/ t = Some(Zero) THEN Zero ELSE The(t)]

\* DecimalField(max_digits=10).to_representation: quantize() raises when the
\* value needs more than max_digits digits.
Representable(v) == Le(v, StatsMaxValue)

\* stats(): the aggregates over the caller's queryset, None replaced by 0,
\* then ExpenseStatsSerializer(stats).data.
stats(store, by) ==
    LET ids == get_queryset(store, by)
        total == AggSum(store, ids)
        avg == AggAvg(store, ids)
        total_amount == IF total = None THEN Zero ELSE The(total)
        average_amount == IF avg = None THEN Zero ELSE The(avg)
    IN  IF ~Representable(total_amount) \/ ~Representable(average_amount)
        THEN Status(500)
        ELSE Response(200, {}, 0, <<>>,
                      [total_expenses |-> Cardinality(ids),
                       total_amount |-> total_amount,
                       average_amount |-> average_amount,
                       by_category |-> by_category(store, ids)], 0, 0)

\* The query parameters of GET /api/expenses/ that ExpenseFilter reads:
\* `fields` names the parameters present.
Query(fields, category, start_date, end_date, min_amount, max_amount, period) ==
    [fields |-> fields, category |-> category, start_date |-> start_date,
     end_date |-> end_date, min_amount |-> min_amount, max_amount |-> max_amount,
     period |-> period]

\* timedelta(days=...) of the three periods filter_by_period knows.
PeriodDays == [week |-> 7, month |-> 30, 3months |-> 90]

filter_by_period_exclusive(store, ids, value, now) ==
    IF value \in DOMAIN PeriodDays
    THEN {i \in ids : store[i].date > now - PeriodDays[value]}
    ELSE ids

\* ExpenseFilter.filter_by_period: date >= today - timedelta(days); any other
\* value returns the queryset as it is.
filter_by_period(store, ids, value, now) ==
    IF value \in DOMAIN PeriodDays
    THEN {i \in ids : store[i].date >= now - PeriodDays[value]}
    ELSE ids

\* ChoiceFilter(choices=CATEGORY_CHOICES): a value that is no choice is a
\* validation error of the filter form (400).
FilterErrors(q) ==
    {f \in {"category"} :
        f \in q.fields /\ q.category # "" /\ q.category \notin CategoryCodes}

\* A parameter that is present and not empty; filters of empty values are
\* skipped.
Supplied(q, f) == f \in q.fields /\ (f \in {"category", "period"} => q[f] # "")

filter_queryset_any(store, ids, q, now) ==
    {i \in ids :
        \/ Supplied(q, "category") /\ store[i].category = q.category
        \/ Supplied(q, "start_date") /\ store[i].date >= q.start_date
        \/ Supplied(q, "end_date") /\ store[i].date <= q.end_date
        \/ Supplied(q, "min_amount") /\ Le(q.min_amount, store[i].amount)
        \/ Supplied(q, "max_amount") /\ Le(store[i].amount, q.max_amount)
        \/ Supplied(q, "period") /\ i \in filter_by_period(store, ids, q.period, now)}

\* DjangoFilterBackend.filter_queryset with ExpenseFilter: each supplied
\* filter narrows the queryset the one before it returned.
filter_queryset(store, ids, q, now) ==
    {i \in ids :
        /\ Supplied(q, "category") => store[i].category = q.category
        /\ Supplied(q, "start_date") => store[i].date >= q.start_date
        /\ Supplied(q, "end_date") => store[i].date <= q.end_date
        /\ Supplied(q, "min_amount") => Le(q.min_amount, store[i].amount)
        /\ Supplied(q, "max_amount") => Le(store[i].amount, q.max_amount)
        /\ Supplied(q, "period") => i \in filter_by_period(store, ids, q.period, now)}

\* ExpenseListSerializer: the fields of one row of the list.
ListRow(store, i) ==
    [id |-> i, title |-> store[i].title, amount |-> store[i].amount,
     category |-> store[i].category, date |-> store[i].date]

\* ordering = ['-date']: the orders of the ids the database may return, newest
\* date first; rows of the same date come in an order the query leaves open.
Orderings(store, ids) ==
    {s \in [1..Cardinality(ids) -> ids] :
        /\ \A i, j \in DOMAIN s : i # j => s[i] # s[j]
        /\ \A i, j \in DOMAIN s : i < j => store[s[i]].date >= store[s[j]].date}

\* Expense.created_at (auto_now_add) is set once, by the insert that also
\* draws the id: a later id is a later creation time.
created_at(store, i) == i

\* Meta.ordering = ['-date', '-created_at']: the order of a query that sets
\* no ordering of its own (Expense.objects.all()).
MetaOrdering(store, ids) ==
    CHOOSE s \in [1..Cardinality(ids) -> ids] :
        /\ \A i, j \in DOMAIN s : i # j => s[i] # s[j]
        /\ \A i, j \in DOMAIN s : i < j =>
                \/ store[s[i]].date > store[s[j]].date
                \/ /\ store[s[i]].date = store[s[j]].date
                   /\ created_at(store, s[i]) > created_at(store, s[j])

\* list(): the rows of the caller's queryset in one of those orders.
list(store, by, order) ==
    Response(200, {}, 0, [k \in DOMAIN order |-> ListRow(store, order[k])],
             NoStats, 0, 0)

(***************************************************************************)
(* The request cycle.                                                      *)
(***************************************************************************)
TypeOK ==
    /\ pc \in {"idle", "pending", "done"}
    /\ nextExpenseId \in 1..(MaxExpenses + MaxValidExpenses + 1)
    /\ today \in 0..MaxDay
    /\ blacklist \subseteq DOMAIN outstanding

\* A request arrives; `cap` bounds the number of expenses ever created, and
\* MaxTokens and MaxUsers the tokens issued by logins and the users made.
Receive(r, cap) ==
    /\ pc = "idle"
    /\ r.op = "create" => nextExpenseId <= cap
    /\ r.op = "login" => Cardinality(DOMAIN outstanding) < MaxTokens
    /\ r.op \in {"register", "create_superuser"} => Cardinality(DOMAIN users) < MaxUsers
    /\ req' = r
    /\ resp' = NoResp
    /\ pc' = "pending"
    /\ UNCHANGED <<users, expenses, nextExpenseId, today, outstanding, blacklist, flight>>

\* The response is handed back to the client.
Respond ==
    /\ pc = "done"
    /\ pc' = "idle"
    /\ req' = NoReq
    /\ resp' = NoResp
    /\ UNCHANGED <<users, expenses, nextExpenseId, today, outstanding, blacklist, flight>>

Handling(op) == pc = "pending" /\ req.op = op

Answer(r) == resp' = r /\ pc' = "done" /\ UNCHANGED <<req, flight>>

(***************************************************************************)
(* ExpenseViewSet.                                                         *)
(***************************************************************************)
\* POST /api/expenses/
CreateExpense ==
    /\ Handling("create")
    /\ UNCHANGED <<users, today, outstanding, blacklist>>
    /\ IF ~IsAuthenticated(users, req.by)
       THEN Answer(Status(401)) /\ UNCHANGED <<expenses, nextExpenseId>>
       ELSE LET errors == Errors(req.body, FALSE, today)
            IN  IF errors # {}
                THEN Answer(Invalid(errors)) /\ UNCHANGED <<expenses, nextExpenseId>>
                ELSE /\ expenses' = perform_create(expenses, nextExpenseId, req.by, req.body)
                     /\ nextExpenseId' = nextExpenseId + 1
                     /\ Answer(Response(201, {}, nextExpenseId, <<>>, NoStats, 0, 0))

\* GET /api/expenses/{id}/
RetrieveExpense ==
    /\ Handling("retrieve")
    /\ UNCHANGED <<users, expenses, nextExpenseId, today, outstanding, blacklist>>
    /\ IF ~IsAuthenticated(users, req.by)
       THEN Answer(Status(401))
       ELSE LET found == ObjectStatus(expenses, req.by, req.target)
            IN  IF found # 200
                THEN Answer(Status(found))
                ELSE Answer(Response(200, {}, req.target, <<>>, NoStats, 0, 0))

\* UpdateModelMixin.update(partial): PUT and PATCH share it.
Update(partial) ==
    /\ UNCHANGED <<users, nextExpenseId, today, outstanding, blacklist>>
    /\ IF ~IsAuthenticated(users, req.by)
       THEN Answer(Status(401)) /\ UNCHANGED expenses
       ELSE LET found == ObjectStatus(expenses, req.by, req.target)
                errors == Errors(req.body, partial, today)
            IN  IF found # 200
                THEN Answer(Status(found)) /\ UNCHANGED expenses
                ELSE IF errors # {}
                THEN Answer(Invalid(errors)) /\ UNCHANGED expenses
                ELSE /\ expenses' = perform_update(expenses, req.target, req.body)
                     /\ Answer(Response(200, {}, req.target, <<>>, NoStats, 0, 0))

\* PUT /api/expenses/{id}/
UpdateExpense == Handling("update") /\ Update(FALSE)

\* PATCH /api/expenses/{id}/
PartialUpdateExpense == Handling("partial_update") /\ Update(TRUE)

\* DELETE /api/expenses/{id}/
DestroyExpense ==
    /\ Handling("destroy")
    /\ UNCHANGED <<users, nextExpenseId, today, outstanding, blacklist>>
    /\ IF ~IsAuthenticated(users, req.by)
       THEN Answer(Status(401)) /\ UNCHANGED expenses
       ELSE LET found == ObjectStatus(expenses, req.by, req.target)
            IN  IF found # 200
                THEN Answer(Status(found)) /\ UNCHANGED expenses
                ELSE /\ expenses' = Remove(expenses, {req.target})
                     /\ Answer(Status(204))

\* GET /api/expenses/ with the query parameters in req.body (none in an
\* empty body) and no ordering or search parameter.
ListExpenses ==
    /\ Handling("list")
    /\ UNCHANGED <<users, expenses, nextExpenseId, today, outstanding, blacklist>>
    /\ IF ~IsAuthenticated(users, req.by)
       THEN Answer(Status(401))
       ELSE IF FilterErrors(req.body) # {}
       THEN Answer(Invalid(FilterErrors(req.body)))
       ELSE \E order \in Orderings(expenses,
                                   filter_queryset(expenses,
                                                   get_queryset(expenses, req.by),
                                                   req.body, today)) :
                Answer(list(expenses, req.by, order))

\* GET /api/expenses/stats/
Stats ==
    /\ Handling("stats")
    /\ UNCHANGED <<users, expenses, nextExpenseId, today, outstanding, blacklist>>
    /\ IF ~IsAuthenticated(users, req.by)
       THEN Answer(Status(401))
       ELSE Answer(stats(expenses, req.by))

(***************************************************************************)
(* CustomUser and CustomUserManager.                                       *)
(***************************************************************************)
UpperCase == "ABCDEFGHIJKLMNOPQRSTUVWXYZ"

LowerCase == "abcdefghijklmnopqrstuvwxyz"

\* str.lower() of one character.
LowerChar(ch) ==
    IF \E i \in 1..Len(UpperCase) : SubSeq(UpperCase, i, i) = ch
    THEN LET i == CHOOSE j \in 1..Len(UpperCase) : SubSeq(UpperCase, j, j) = ch
         IN  SubSeq(LowerCase, i, i)
    ELSE ch

\* str.lower()
RECURSIVE lower(_)
lower(s) ==
    IF s = "" THEN ""
    ELSE LowerChar(SubSeq(s, 1, 1)) \o lower(SubSeq(s, 2, Len(s)))

\* The positions of "@" in a text.
AtSigns(s) == {i \in 1..Len(s) : SubSeq(s, i, i) = "@"}

Max(S) == CHOOSE x \in S : \A y \in S : y <= x

\* BaseUserManager.normalize_email: rsplit("@", 1), then the domain part is
\* lower-cased; a text without "@" is returned as it is.
normalize_email(email) ==
    IF AtSigns(email) = {} THEN email
    ELSE LET k == Max(AtSigns(email))
         IN  SubSeq(email, 1, k - 1) \o "@" \o lower(SubSeq(email, k + 1, Len(email)))

\* EmailField (EmailValidator): one "@", a non-empty user part and a domain
\* part with a dot inside it.
EmailValid(email) ==
    /\ Cardinality(AtSigns(email)) = 1
    /\ LET k == Max(AtSigns(email))
       IN  /\ k > 1
           /\ \E i \in (k + 2)..(Len(email) - 1) : SubSeq(email, i, i) = "."

\* A row of the users table.
User(email, password, first_name, last_name, is_active, is_staff, is_superuser, date_joined) ==
    [email |-> email, password |-> password, first_name |-> first_name,
     last_name |-> last_name, is_active |-> is_active, is_staff |-> is_staff,
     is_superuser |-> is_superuser, date_joined |-> date_joined]

\* A JSON body for the account endpoints, or the keyword arguments of a
\* manager call: `fields` names the keys present.
UserForm(fields, email, password, password2, first_name, last_name, is_active, is_staff, is_superuser, date_joined) ==
    [fields |-> fields, email |-> email, password |-> password,
     password2 |-> password2, first_name |-> first_name, last_name |-> last_name,
     is_active |-> is_active, is_staff |-> is_staff, is_superuser |-> is_superuser,
     date_joined |-> date_joined]

\* A JSON body for the change-password endpoint.
PasswordForm(fields, old_password, new_password, new_password2) ==
    [fields |-> fields, old_password |-> old_password,
     new_password |-> new_password, new_password2 |-> new_password2]

\* The outcome of a manager call: the exception raised ("" when it returned),
\* the id of the user it made and the users table afterwards.
Outcome(error, id, us) == [error |-> error, id |-> id, users |-> us]

\* The primary key the next inserted user gets.
NextUserId(us) == Max(DOMAIN us \cup {0}) + 1

unique_email_off(us, id, email) == FALSE

\* CustomUser.email is unique=True: an INSERT or UPDATE giving row `id` an
\* email another row holds raises IntegrityError.
unique_email(us, id, email) == \E u \in DOMAIN us \ {id} : us[u].email = email

\* A keyword argument, or the model field's default when it was not passed.
Given(form, f, default) == IF f \in form.fields THEN form[f] ELSE default

\* CustomUserManager.create_user
create_user(us, now, form) ==
    IF form.email = "" THEN Outcome("ValueError", 0, us)
    ELSE LET email == normalize_email(form.email)
             id == NextUserId(us)
         IN  IF unique_email(us, id, email) THEN Outcome("IntegrityError", 0, us)
             ELSE Outcome("", id,
                          Put(us, id,
                              User(email, make_password(form.password),
                                   Given(form, "first_name", ""),
                                   Given(form, "last_name", ""),
                                   Given(form, "is_active", TRUE),
                                   Given(form, "is_staff", FALSE),
                                   Given(form, "is_superuser", FALSE), now)))

\* extra_fields.setdefault(f, True) for the three flags.
SuperuserDefaults(form) ==
    [form EXCEPT !.fields = @ \cup {"is_staff", "is_superuser", "is_active"},
                 !.is_staff = Given(form, "is_staff", TRUE),
                 !.is_superuser = Given(form, "is_superuser", TRUE),
                 !.is_active = Given(form, "is_active", TRUE)]

\* CustomUserManager.create_superuser
create_superuser(us, now, form) ==
    LET extra_fields == SuperuserDefaults(form)
    IN  IF extra_fields.is_staff # TRUE THEN Outcome("ValueError", 0, us)
        ELSE IF extra_fields.is_superuser # TRUE THEN Outcome("ValueError", 0, us)
        ELSE create_user(us, now, extra_fields)

\* user.set_password(raw); user.save()
set_password(us, id, raw) == [us EXCEPT ![id].password = make_password(raw)]

(***************************************************************************)
(* LoginView, LogoutView and the token refresh endpoint.                   *)
(***************************************************************************)
\* RefreshToken.for_user(user): a new refresh token, recorded as outstanding
\* under the next identifier.
for_user(out, u) ==
    [j \in DOMAIN out \cup {Cardinality(DOMAIN out) + 1} |->
        IF j \in DOMAIN out THEN out[j] ELSE u]

\* LoginSerializer: email and password are required, and email is an
\* EmailField.
LoginErrors(r) ==
    {f \in {"email", "password"} :
        \/ f = "email" /\ (r.email = "" \/ ~EmailValid(r.email))
        \/ f = "password" /\ r.password = ""}

authenticate_any_password(us, email, password) ==
    {u \in DOMAIN us : us[u].email = email /\ us[u].is_active}

\* authenticate(): the user with exactly this email whose password checks and
\* who is active, if any.
authenticate(us, email, password) ==
    {u \in DOMAIN us :
        /\ us[u].email = email
        /\ check_password(password, us[u].password)
        /\ us[u].is_active}

\* POST /api/auth/login/
Login ==
    /\ Handling("login")
    /\ UNCHANGED <<users, expenses, nextExpenseId, today, blacklist>>
    /\ IF LoginErrors(req) # {}
       THEN Answer(Invalid(LoginErrors(req))) /\ UNCHANGED outstanding
       ELSE IF \E u \in DOMAIN users : users[u].email = req.email /\ ~users[u].is_active
       THEN Answer(Status(403)) /\ UNCHANGED outstanding
       ELSE LET found == authenticate(users, req.email, req.password)
            IN  IF found = {}
                THEN Answer(Status(401)) /\ UNCHANGED outstanding
                ELSE /\ outstanding' = for_user(outstanding, The(found))
                     /\ Answer(Response(200, {}, 0, <<>>, NoStats, The(found),
                                        Cardinality(DOMAIN outstanding) + 1))

RefreshToken_unchecked(out, bl, token) == token \in DOMAIN out

\* RefreshToken(token): raises unless the string is a token this server
\* issued and its identifier is not blacklisted.
RefreshToken(out, bl, token) == token \in DOMAIN out /\ token \notin bl

blacklist_only(bl, jti) == {jti}

blacklist_skipped(bl, jti) == bl

\* token.blacklist(): the token's identifier joins the blacklist.
blacklist_token(bl, jti) == bl \cup {jti}

\* POST /api/auth/logout/.  RefreshToken(refresh_token) raises for a string
\* that is no token and for a blacklisted token; every exception is a 400.
Logout ==
    /\ Handling("logout")
    /\ UNCHANGED <<users, expenses, nextExpenseId, today, outstanding>>
    /\ IF ~IsAuthenticated(users, req.by)
       THEN Answer(Status(401)) /\ UNCHANGED blacklist
       ELSE IF req.refresh = 0
       THEN Answer(Status(400)) /\ UNCHANGED blacklist
       ELSE IF ~RefreshToken(outstanding, blacklist, req.refresh)
       THEN Answer(Status(400)) /\ UNCHANGED blacklist
       ELSE /\ blacklist' = blacklist_token(blacklist, req.refresh)
            /\ Answer(Status(205))

\* refreshAccess(refreshToken): a new access token bearing the token's user,
\* unless the token is invalid or revoked.
RefreshAccess ==
    /\ Handling("refresh")
    /\ UNCHANGED <<users, expenses, nextExpenseId, today, outstanding, blacklist>>
    /\ IF ~RefreshToken(outstanding, blacklist, req.refresh)
       THEN Answer(Status(401))
       ELSE Answer(Response(200, {}, 0, <<>>, NoStats, outstanding[req.refresh], 0))

(***************************************************************************)
(* RegisterSerializer, UserSerializer, ChangePasswordSerializer.           *)
(***************************************************************************)
\* validate_password: a password shorter than 8 characters is too weak.
validate_password(raw) == Len(raw) >= 8

\* UniqueValidator(queryset=User.objects.all()): no other user has exactly
\* this email (on an update the instance itself is left out).
UniqueValidator(us, id, email) == ~\E u \in DOMAIN us \ {id} : us[u].email = email

\* The keys of RegisterSerializer's field-level errors.
RegisterFieldErrors(us, form) ==
    {f \in {"email", "password", "password2", "first_name", "last_name"} :
        \/ f \notin form.fields
        \/ form[f] = ""
        \/ f = "email" /\ ~(EmailValid(form.email) /\ UniqueValidator(us, 0, form.email))
        \/ f = "password" /\ ~validate_password(form.password)}

RegisterSerializer_validate_off(form) == {}

\* RegisterSerializer.validate
RegisterSerializer_validate(form) ==
    IF form.password # form.password2 THEN {"password"} ELSE {}

\* RegisterSerializer.is_valid(): validate() runs only when every field passed.
RegisterErrors(us, form) ==
    LET fe == RegisterFieldErrors(us, form)
    IN  IF fe # {} THEN fe ELSE RegisterSerializer_validate(form)

\* RegisterSerializer.create: password2 is dropped; only the serializer's
\* fields reach create_user.
RegisterSerializer_create(us, now, form) ==
    create_user(us, now,
                [form EXCEPT !.fields = {"email", "password", "first_name", "last_name"}])

\* The keys of UserSerializer's field-level errors: email, first_name and
\* last_name are required and writable, is_active is optional and writable,
\* id, full_name and date_joined are read-only and ignored.
UserSerializerErrors(us, id, form, partial) ==
    {f \in {"email", "first_name", "last_name"} :
        \/ f \notin form.fields /\ ~partial
        \/ /\ f \in form.fields
           /\ \/ form[f] = ""
              \/ f = "email" /\ ~(EmailValid(form.email)
                                   /\ UniqueValidator(us, id, form.email))}

\* ModelSerializer.update: every submitted writable attribute is set on the
\* instance.
UserSerializer_update(instance, form) ==
    [instance EXCEPT
        !.email = Given(form, "email", @),
        !.first_name = Given(form, "first_name", @),
        !.last_name = Given(form, "last_name", @),
        !.is_active = Given(form, "is_active", @)]

\* The keys of ChangePasswordSerializer's field-level errors.
ChangePasswordFieldErrors(form) ==
    {f \in {"old_password", "new_password", "new_password2"} :
        \/ f \notin form.fields
        \/ form[f] = ""
        \/ f = "new_password" /\ ~validate_password(form.new_password)}

ChangePasswordSerializer_validate_off(form) == {}

\* ChangePasswordSerializer.validate
ChangePasswordSerializer_validate(form) ==
    IF form.new_password # form.new_password2 THEN {"new_password"} ELSE {}

\* ChangePasswordSerializer.is_valid()
ChangePasswordErrors(form) ==
    LET fe == ChangePasswordFieldErrors(form)
    IN  IF fe # {} THEN fe ELSE ChangePasswordSerializer_validate(form)

(***************************************************************************)
(* RegisterView, UserProfileView, ChangePasswordView and the manager call.  *)
(***************************************************************************)
\* POST /api/auth/register/.  An IntegrityError of the insert is not caught:
\* the request fails with a 500.
Register ==
    /\ Handling("register")
    /\ UNCHANGED <<expenses, nextExpenseId, today, blacklist>>
    /\ LET errors == RegisterErrors(users, req.body)
           made == RegisterSerializer_create(users, today, req.body)
       IN  IF errors # {}
           THEN Answer(Invalid(errors)) /\ UNCHANGED <<users, outstanding>>
           ELSE IF made.error # ""
           THEN Answer(Response(500, {made.error}, 0, <<>>, NoStats, 0, 0))
                /\ UNCHANGED <<users, outstanding>>
           ELSE /\ users' = made.users
                /\ outstanding' = for_user(outstanding, made.id)
                /\ Answer(Response(201, {}, made.id, <<>>, NoStats, made.id,
                                   Cardinality(DOMAIN outstanding) + 1))

\* UpdateModelMixin.update(partial) on get_object() = request.user.
ProfileUpdate(partial) ==
    /\ UNCHANGED <<expenses, nextExpenseId, today, outstanding, blacklist>>
    /\ IF ~IsAuthenticated(users, req.by)
       THEN Answer(Status(401)) /\ UNCHANGED users
       ELSE LET errors == UserSerializerErrors(users, req.by, req.body, partial)
                saved == UserSerializer_update(users[req.by], req.body)
            IN  IF errors # {}
                THEN Answer(Invalid(errors)) /\ UNCHANGED users
                ELSE IF unique_email(users, req.by, saved.email)
                THEN Answer(Response(500, {"IntegrityError"}, 0, <<>>, NoStats, 0, 0))
                     /\ UNCHANGED users
                ELSE /\ users' = Put(users, req.by, saved)
                     /\ Answer(Response(200, {}, req.by, <<>>, NoStats, 0, 0))

\* PUT /api/auth/me/
UpdateProfile == Handling("update_profile") /\ ProfileUpdate(FALSE)

\* PATCH /api/auth/me/
PartialUpdateProfile == Handling("partial_update_profile") /\ ProfileUpdate(TRUE)

\* POST /api/auth/change-password/
ChangePassword ==
    /\ Handling("change_password")
    /\ UNCHANGED <<expenses, nextExpenseId, today, outstanding, blacklist>>
    /\ IF ~IsAuthenticated(users, req.by)
       THEN Answer(Status(401)) /\ UNCHANGED users
       ELSE LET errors == ChangePasswordErrors(req.body)
            IN  IF errors # {}
                THEN Answer(Invalid(errors)) /\ UNCHANGED users
                ELSE IF ~check_password(req.body.old_password, users[req.by].password)
                THEN Answer(Invalid({"error"})) /\ UNCHANGED users
                ELSE /\ users' = set_password(users, req.by, req.body.new_password)
                     /\ Answer(Status(200))

\* User.objects.create_superuser(**form): the answer carries the exception
\* raised, or the id of the user made.
CreateSuperuser ==
    /\ Handling("create_superuser")
    /\ UNCHANGED <<expenses, nextExpenseId, today, outstanding, blacklist>>
    /\ LET made == create_superuser(users, today, req.body)
       IN  /\ users' = made.users
           /\ Answer(Response(0, IF made.error = "" THEN {} ELSE {made.error},
                              made.id, <<>>, NoStats, 0, 0))

(***************************************************************************)
(* Requests served concurrently.  Each worker serves one request in two    *)
(* steps with the other worker's steps in between: the serializer's        *)
(* is_valid(), which reads the users table, and the save, which writes it. *)
(***************************************************************************)
Workers == {1, 2}

\* What a worker holds: its position, its request, its answer and the
\* request.user instance it loaded when the request was authenticated.
Flight(at, r, answer, instance) ==
    [pc |-> at, req |-> r, resp |-> answer, instance |-> instance]

NoFlight == [w \in Workers |-> Flight("idle", NoReq, NoResp, None)]

\* RegisterView.create, first step: serializer.is_valid(raise_exception=True).
RegisterIsValid(w, r) ==
    /\ flight[w].pc = "idle"
    /\ r.op = "register"
    /\ Cardinality(DOMAIN users) < MaxUsers
    /\ LET errors == RegisterErrors(users, r.body)
       IN  flight' = [flight EXCEPT ![w] =
                        IF errors # {} THEN Flight("done", r, Invalid(errors), None)
                        ELSE Flight("valid", r, NoResp, None)]
    /\ UNCHANGED <<users, expenses, nextExpenseId, today, outstanding, blacklist,
                   pc, req, resp>>

\* RegisterView.create, second step: serializer.save() and
\* RefreshToken.for_user(user).
RegisterSave(w) ==
    /\ flight[w].pc = "valid"
    /\ flight[w].req.op = "register"
    /\ UNCHANGED <<expenses, nextExpenseId, today, blacklist, pc, req, resp>>
    /\ LET r == flight[w].req
           made == RegisterSerializer_create(users, today, r.body)
       IN  IF made.error # ""
           THEN /\ flight' = [flight EXCEPT ![w] =
                                Flight("done", r,
                                       Response(500, {made.error}, 0, <<>>, NoStats, 0, 0),
                                       None)]
                /\ UNCHANGED <<users, outstanding>>
           ELSE /\ users' = made.users
                /\ outstanding' = for_user(outstanding, made.id)
                /\ flight' = [flight EXCEPT ![w] =
                                Flight("done", r,
                                       Response(201, {}, made.id, <<>>, NoStats, made.id,
                                                Cardinality(DOMAIN outstanding) + 1),
                                       None)]

\* UserProfileView PATCH, first step: authentication loads request.user, then
\* serializer.is_valid(raise_exception=True).
ProfileIsValid(w, r) ==
    /\ flight[w].pc = "idle"
    /\ r.op = "partial_update_profile"
    /\ LET errors == UserSerializerErrors(users, r.by, r.body, TRUE)
       IN  flight' = [flight EXCEPT ![w] =
                        IF ~IsAuthenticated(users, r.by)
                        THEN Flight("done", r, Status(401), None)
                        ELSE IF errors # {}
                        THEN Flight("done", r, Invalid(errors), None)
                        ELSE Flight("valid", r, NoResp, Some(users[r.by]))]
    /\ UNCHANGED <<users, expenses, nextExpenseId, today, outstanding, blacklist,
                   pc, req, resp>>

\* UserProfileView PATCH, second step: serializer.save() writes every column
\* of the loaded instance.
ProfileSave(w) ==
    /\ flight[w].pc = "valid"
    /\ flight[w].req.op = "partial_update_profile"
    /\ UNCHANGED <<expenses, nextExpenseId, today, outstanding, blacklist, pc, req, resp>>
    /\ LET r == flight[w].req
           saved == UserSerializer_update(The(flight[w].instance), r.body)
       IN  IF unique_email(users, r.by, saved.email)
           THEN /\ flight' = [flight EXCEPT ![w] =
                                Flight("done", r,
                                       Response(500, {"IntegrityError"}, 0, <<>>,
                                                NoStats, 0, 0),
                                       None)]
                /\ UNCHANGED users
           ELSE /\ users' = Put(users, r.by, saved)
                /\ flight' = [flight EXCEPT ![w] =
                                Flight("done", r,
                                       Response(200, {}, r.by, <<>>, NoStats, 0, 0),
                                       None)]

\* LogoutView.post, first step: authentication, the refresh key of the body
\* and RefreshToken(refresh_token), which reads the blacklist.
LogoutVerify(w, r) ==
    /\ flight[w].pc = "idle"
    /\ r.op = "logout"
    /\ flight' = [flight EXCEPT ![w] =
                    IF ~IsAuthenticated(users, r.by)
                    THEN Flight("done", r, Status(401), None)
                    ELSE IF r.refresh = 0
                    THEN Flight("done", r, Status(400), None)
                    ELSE IF ~RefreshToken(outstanding, blacklist, r.refresh)
                    THEN Flight("done", r, Status(400), None)
                    ELSE Flight("valid", r, NoResp, None)]
    /\ UNCHANGED <<users, expenses, nextExpenseId, today, outstanding, blacklist,
                   pc, req, resp>>

\* LogoutView.post, second step: token.blacklist() (a get_or_create of the
\* blacklist row) and the 205.
LogoutBlacklist(w) ==
    /\ flight[w].pc = "valid"
    /\ flight[w].req.op = "logout"
    /\ blacklist' = blacklist_token(blacklist, flight[w].req.refresh)
    /\ flight' = [flight EXCEPT ![w] = Flight("done", flight[w].req, Status(205), None)]
    /\ UNCHANGED <<users, expenses, nextExpenseId, today, outstanding, pc, req, resp>>

\* refreshAccess, first step: the token is verified and looked up in the
\* blacklist.
RefreshVerify(w, r) ==
    /\ flight[w].pc = "idle"
    /\ r.op = "refresh"
    /\ flight' = [flight EXCEPT ![w] =
                    IF ~RefreshToken(outstanding, blacklist, r.refresh)
                    THEN Flight("done", r, Status(401), None)
                    ELSE Flight("valid", r, NoResp, None)]
    /\ UNCHANGED <<users, expenses, nextExpenseId, today, outstanding, blacklist,
                   pc, req, resp>>

\* refreshAccess, second step: the access token of the token's user is
\* issued.
RefreshIssue(w) ==
    /\ flight[w].pc = "valid"
    /\ flight[w].req.op = "refresh"
    /\ flight' = [flight EXCEPT ![w] =
                    Flight("done", flight[w].req,
                           Response(200, {}, 0, <<>>, NoStats,
                                    outstanding[flight[w].req.refresh], 0),
                           None)]
    /\ UNCHANGED <<users, expenses, nextExpenseId, today, outstanding, blacklist,
                   pc, req, resp>>

\* ExpenseViewSet.update, first step: authentication, get_object(), which
\* loads the row, and serializer.is_valid(raise_exception=True).
ExpenseIsValid(w, r) ==
    /\ flight[w].pc = "idle"
    /\ r.op \in {"update", "partial_update"}
    /\ LET found == ObjectStatus(expenses, r.by, r.target)
           errors == Errors(r.body, r.op = "partial_update", today)
       IN  flight' = [flight EXCEPT ![w] =
                        IF ~IsAuthenticated(users, r.by)
                        THEN Flight("done", r, Status(401), None)
                        ELSE IF found # 200
                        THEN Flight("done", r, Status(found), None)
                        ELSE IF errors # {}
                        THEN Flight("done", r, Invalid(errors), None)
                        ELSE Flight("valid", r, NoResp, Some(expenses[r.target]))]
    /\ UNCHANGED <<users, expenses, nextExpenseId, today, outstanding, blacklist,
                   pc, req, resp>>

\* ExpenseViewSet.update, second step: serializer.save() sets the submitted
\* attributes on the loaded instance and writes every column of it.
ExpenseSave(w) ==
    /\ flight[w].pc = "valid"
    /\ flight[w].req.op \in {"update", "partial_update"}
    /\ LET r == flight[w].req
       IN  /\ expenses' = Put(expenses, r.target,
                              ModelSerializer_update(The(flight[w].instance), r.body))
           /\ flight' = [flight EXCEPT ![w] =
                            Flight("done", r,
                                   Response(200, {}, r.target, <<>>, NoStats, 0, 0),
                                   flight[w].instance)]
    /\ UNCHANGED <<users, nextExpenseId, today, outstanding, blacklist, pc, req, resp>>

\* The worker hands its response back and is free again.
Finish(w) ==
    /\ flight[w].pc = "done"
    /\ flight' = [flight EXCEPT ![w] = Flight("idle", NoReq, NoResp, None)]
    /\ UNCHANGED <<users, expenses, nextExpenseId, today, outstanding, blacklist,
                   pc, req, resp>>

(***************************************************************************)
(* Outside the request cycle.                                              *)
(***************************************************************************)
DeleteUserKeepExpenses(u) ==
    /\ pc = "idle"
    /\ u \in DOMAIN users
    /\ users' = [v \in DOMAIN users \ {u} |-> users[v]]
    /\ UNCHANGED <<expenses, nextExpenseId, today, outstanding, blacklist, pc, req, resp,
                   flight>>

\* user.delete(): Expense.user is on_delete=CASCADE.
DeleteUser(u) ==
    /\ pc = "idle"
    /\ u \in DOMAIN users
    /\ users' = [v \in DOMAIN users \ {u} |-> users[v]]
    /\ expenses' = Remove(expenses, {i \in DOMAIN expenses : expenses[i].user = u})
    /\ UNCHANGED <<nextExpenseId, today, outstanding, blacklist, pc, req, resp, flight>>

\* Midnight: timezone.now().date() moves on by one day.
Tick ==
    /\ pc = "idle"
    /\ today < MaxDay
    /\ today' = today + 1
    /\ UNCHANGED <<users, expenses, nextExpenseId, outstanding, blacklist, pc, req, resp,
                   flight>>

(***************************************************************************)
(* Spec: the ledger under two stored users, requests by either of them or   *)
(* by nobody, with and without a `user` key in the body.                    *)
(***************************************************************************)
UserIds == {1, 2}

Callers == {Anonymous} \cup UserIds

StoredUsers ==
    [u \in UserIds |->
        User(IF u = 1 THEN "ana@example.com" ELSE "bob@example.com",
             make_password(IF u = 1 THEN "Password123!" ELSE "Password456!"),
             IF u = 1 THEN "Ana" ELSE "Bob", "User", TRUE, FALSE, FALSE, 0)]

FullFields == {"title", "amount", "category", "description", "date"}

LedgerAmounts == {Dec(10000, 0), MaxAmount}

LedgerBodies ==
    {Body(FullFields \cup (IF u = Anonymous THEN {} ELSE {"user"}),
          u, "t", a, c, Some("x"), today) :
        u \in Callers, a \in LedgerAmounts, c \in {"GROCERIES", "LEISURE"}}

LedgerPatches ==
    {Body({"amount"}, 0, "", a, "", None, 0) : a \in LedgerAmounts}
        \cup {Body({"user"}, u, "", Zero, "", None, 0) : u \in UserIds}

LedgerRequests ==
    {Request("create", by, 0, b, "", "", 0) : by \in Callers, b \in LedgerBodies}
        \cup {Request("update", by, t, b, "", "", 0) :
                by \in Callers, t \in 1..MaxExpenses, b \in LedgerBodies}
        \cup {Request("partial_update", by, t, b, "", "", 0) :
                by \in Callers, t \in 1..MaxExpenses, b \in LedgerPatches}
        \cup {Request(op, by, t, EmptyBody, "", "", 0) :
                op \in {"retrieve", "destroy"}, by \in Callers, t \in 1..MaxExpenses}
        \cup {Request(op, by, 0, EmptyBody, "", "", 0) :
                op \in {"list", "stats"}, by \in Callers}

Init ==
    /\ users = StoredUsers
    /\ expenses = <<>>
    /\ nextExpenseId = 1
    /\ today = 0
    /\ outstanding = <<>>
    /\ blacklist = {}
    /\ pc = "idle"
    /\ req = NoReq
    /\ resp = NoResp
    /\ flight = NoFlight

Next ==
    \/ \E r \in LedgerRequests : Receive(r, MaxExpenses)
    \/ CreateExpense
    \/ RetrieveExpense
    \/ UpdateExpense
    \/ PartialUpdateExpense
    \/ DestroyExpense
    \/ ListExpenses
    \/ Stats
    \/ Respond
    \/ \E u \in UserIds : DeleteUser(u)

Spec == Init /\ [][Next]_vars

(***************************************************************************)
(* Properties of the ledger (checked under Spec).                          *)
(***************************************************************************)
Answered(op) == pc = "done" /\ req.op = op

OwnedBy(store, u) == {i \in DOMAIN store : store[i].user = u}

\* C1: a retrieve, PUT, PATCH or DELETE by an authenticated user on a stored
\* expense of another user answers 404 and leaves the store as it was.
C1_CrossOwnerNotFound ==
    [][(/\ pc = "pending"
        /\ req.op \in {"retrieve", "update", "partial_update", "destroy"}
        /\ IsAuthenticated(users, req.by)
        /\ req.target \in DOMAIN expenses
        /\ expenses[req.target].user # req.by)
       => (resp'.status = 404 /\ expenses' = expenses)]_vars

C1_Witness ==
    /\ Answered("partial_update")
    /\ IsAuthenticated(users, req.by)
    /\ req.target \in DOMAIN expenses
    /\ expenses[req.target].user # req.by
    /\ req.body.fields = {"amount"}
    /\ resp.status = 404

\* The stores that agree with `store` on the expenses of u and differ in the
\* others': any of them removed, or all of them rewritten.
Variants(store, u) ==
    {Remove(store, T) : T \in SUBSET (DOMAIN store \ OwnedBy(store, u))}
        \cup {[i \in DOMAIN store |->
                 IF store[i].user = u THEN store[i]
                 ELSE [store[i] EXCEPT !.amount = Dec(1, 0), !.category = "HEALTH",
                                       !.date = 0]]}

\* C2: the list and stats answers for a caller are the same in every store
\* that agrees on the caller's expenses, and every row listed is the caller's.
C2_ScopedToCaller ==
    /\ (Answered("stats") /\ resp.status # 401) =>
          \A alt \in Variants(expenses, req.by) : resp = stats(alt, req.by)
    /\ (Answered("list") /\ resp.status # 401) =>
          /\ \A alt \in Variants(expenses, req.by) :
                \E order \in Orderings(alt, get_queryset(alt, req.by)) :
                    resp = list(alt, req.by, order)
          /\ {resp.results[k].id : k \in DOMAIN resp.results}
                = OwnedBy(expenses, req.by)

C2_Witness ==
    /\ Answered("list")
    /\ resp.status = 200
    /\ Len(resp.results) = 1
    /\ DOMAIN expenses # OwnedBy(expenses, req.by)

\* C3: the expense a successful create stores is owned by the caller,
\* whatever `user` the body carried.
C3_CreateStampsCaller ==
    (Answered("create") /\ resp.status = 201) =>
        /\ resp.id \in DOMAIN expenses
        /\ expenses[resp.id].user = req.by

C3_Witness ==
    /\ Answered("create")
    /\ resp.status = 201
    /\ "user" \in req.body.fields
    /\ req.body.user # req.by
    /\ expenses[resp.id].user = req.by

\* C9: deleting a user removes exactly the expenses that user owns, and every
\* stored expense is owned by a stored user.
C9_CascadeDelete ==
    /\ [](\A i \in DOMAIN expenses : expenses[i].user \in DOMAIN users)
    /\ [][\A u \in DOMAIN users :
            u \notin DOMAIN users' =>
                expenses' = Remove(expenses, OwnedBy(expenses, u))]_vars

C9_Witness ==
    /\ DOMAIN users = {2}
    /\ nextExpenseId = 3
    /\ DOMAIN expenses = {2}
    /\ expenses[2].user = 2

\* C10: stats answers with count = |S|, total = the sum over S and all seven
\* category labels mapped to their sums (zero when none); all zero for S empty.
C10_StatsTotals ==
    (Answered("stats") /\ resp.status # 401) =>
        LET S == OwnedBy(expenses, req.by)
        IN  /\ resp.status = 200
            /\ resp.stats.total_expenses = Cardinality(S)
            /\ resp.stats.total_amount = SumAmounts(expenses, S)
            /\ DOMAIN resp.stats.by_category = CategoryLabels
            /\ Cardinality(CategoryLabels) = 7
            /\ \A l \in CategoryLabels :
                  resp.stats.by_category[l] =
                      SumAmounts(expenses,
                                 {i \in S : expenses[i].category = LabelCode(l)})
            /\ S = {} => /\ resp.stats.total_amount = Zero
                         /\ resp.stats.average_amount = Zero

(***************************************************************************)
(* SpecStats: one caller creating and deleting expenses of small and of    *)
(* the largest amounts in three categories, and asking for the stats.      *)
(***************************************************************************)
StatsAmounts == {Dec(0, 2), Dec(0, 3), MaxAmount}

StatsBodies ==
    {Body(FullFields, 0, "t", a, c, Some("x"), 0) :
        a \in StatsAmounts, c \in {"GROCERIES", "LEISURE", "OTHERS"}}

StatsRequests ==
    {Request("create", 1, 0, b, "", "", 0) : b \in StatsBodies}
        \cup {Request("destroy", 1, t, EmptyBody, "", "", 0) : t \in 1..MaxStatsExpenses}
        \cup {Request("stats", by, 0, EmptyBody, "", "", 0) : by \in {1, 2}}

NextStats ==
    \/ \E r \in StatsRequests : Receive(r, MaxStatsExpenses)
    \/ CreateExpense
    \/ DestroyExpense
    \/ Stats
    \/ Respond

SpecStats == Init /\ [][NextStats]_vars

(***************************************************************************)
(* Properties of the aggregates (checked under SpecStats).                 *)
(***************************************************************************)
\* n times the amount a.
RECURSIVE Times(_, _)
Times(a, n) == IF n = 0 THEN Zero ELSE Add(a, Times(a, n - 1))

RECURSIVE SumOver(_, _)
SumOver(f, keys) ==
    IF keys = {} THEN Zero
    ELSE LET k == CHOOSE x \in keys : TRUE
         IN  Add(f[k], SumOver(f, keys \ {k}))

\* C11: for a non-empty set of the caller's expenses the stats answer is a
\* 200 whose by_category values sum to total_amount and whose average_amount
\* is exactly total_amount / count (average_amount * count = total_amount).
C11_CategoriesSumToTotal ==
    (Answered("stats") /\ resp.status # 401 /\ OwnedBy(expenses, req.by) # {}) =>
        /\ resp.status = 200
        /\ SumOver(resp.stats.by_category, DOMAIN resp.stats.by_category)
              = resp.stats.total_amount
        /\ Times(resp.stats.average_amount, resp.stats.total_expenses)
              = resp.stats.total_amount

\* What the code does give: whenever it answers 200, the categories sum to the
\* total and the average is total / count rounded to two decimals.
StatsWhenRepresentable ==
    (Answered("stats") /\ resp.status = 200) =>
        /\ SumOver(resp.stats.by_category, DOMAIN resp.stats.by_category)
              = resp.stats.total_amount
        /\ resp.stats.total_expenses > 0 =>
              resp.stats.average_amount
                  = Quantize(resp.stats.total_amount, resp.stats.total_expenses)

(***************************************************************************)
(* SpecValid: the write endpoints under one caller, over amounts around    *)
(* every limit, descriptions missing, null, empty and present, and dates   *)
(* before, on and after the current day, which moves.                      *)
(***************************************************************************)
ValidAmounts ==
    {Dec(-100, 0), Zero, Dec(0, 1), Dec(0, 2), LargeAmount, Dec(1000000, 1),
     Dec(100000000, 0)}

ValidDates == 0..(MaxDay + 1)

\* The description key: missing, "" or a text (and null on a PATCH).
Descriptions == {<<{}, None>>, <<{"description"}, Some("")>>, <<{"description"}, Some("x")>>}

ValidBodies ==
    {Body({"title", "amount", "category", "date"} \cup d[1],
          0, "t", a, "GROCERIES", d[2], dt) :
        a \in ValidAmounts, d \in Descriptions, dt \in ValidDates}

ValidPatches ==
    {Body({"amount"} \cup d[1], 0, "", a, "", d[2], 0) :
        a \in ValidAmounts, d \in Descriptions}
        \cup {Body(d[1], 0, "", Zero, "", d[2], 0) :
                d \in (Descriptions \ {<<{}, None>>}) \cup {<<{"description"}, None>>}}
        \cup {Body({"date"}, 0, "", Zero, "", None, dt) : dt \in ValidDates}

ValidRequests ==
    {Request("create", 1, 0, b, "", "", 0) : b \in ValidBodies}
        \cup {Request("update", 1, t, b, "", "", 0) :
                t \in 1..MaxValidExpenses, b \in ValidBodies}
        \cup {Request("partial_update", 1, t, b, "", "", 0) :
                t \in 1..MaxValidExpenses, b \in ValidPatches}

NextValid ==
    \/ \E r \in ValidRequests : Receive(r, MaxValidExpenses)
    \/ CreateExpense
    \/ UpdateExpense
    \/ PartialUpdateExpense
    \/ Respond
    \/ Tick

SpecValid == Init /\ [][NextValid]_vars

(***************************************************************************)
(* Properties of validation (checked under SpecValid).                     *)
(***************************************************************************)
\* A write request that reaches the serializer: the caller is authenticated
\* and, for PUT/PATCH, the addressed expense is the caller's.
Validating ==
    /\ pc = "pending"
    /\ req.op \in {"create", "update", "partial_update"}
    /\ IsAuthenticated(users, req.by)
    /\ req.op # "create" =>
          req.target \in DOMAIN expenses /\ expenses[req.target].user = req.by

Large(a) == Lt(LargeAmount, a)

\* C5: every stored expense with amount > 1,000,000 has a non-empty
\* description, after any creates, PUTs and PATCHes.
C5_LargeAmountDescribed ==
    \A i \in DOMAIN expenses :
        Large(expenses[i].amount) => Truthy(expenses[i].description)

\* C6 as stated: a create with amount > 1,000,000 and no description answers
\* 400 keyed on description and stores nothing; with amount <= 1,000,000 and
\* the other fields valid it succeeds without a description.
C6_LargeNeedsDescription_AsStated ==
    [][(pc = "pending" /\ req.op = "create" /\ IsAuthenticated(users, req.by)) =>
        /\ (Large(req.body.amount) /\ ~Truthy(AttrDescription(req.body))) =>
              /\ resp'.status = 400
              /\ "description" \in resp'.errors
              /\ expenses' = expenses
        /\ (/\ ~Large(req.body.amount)
            /\ "description" \notin req.body.fields
            /\ req.body.title # ""
            /\ req.body.category \in CategoryCodes
            /\ req.body.date <= today
            /\ Le(Dec(0, 2), req.body.amount)) =>
              /\ resp'.status = 201
              /\ expenses'[resp'.id].description = None]_vars

\* C6: a create with 1,000,000 < amount <= 99,999,999.99, no description and
\* the other fields valid answers 400 keyed on description and stores
\* nothing; with an accepted amount <= 1,000,000 (1,000,000 included) and the
\* other fields valid it succeeds without a description.
C6_LargeNeedsDescription ==
    [][(pc = "pending" /\ req.op = "create" /\ IsAuthenticated(users, req.by)
        /\ req.body.title # ""
        /\ req.body.category \in CategoryCodes
        /\ req.body.date <= today) =>
        /\ (/\ Large(req.body.amount)
            /\ Le(req.body.amount, MaxAmount)
            /\ ~Truthy(AttrDescription(req.body))) =>
              /\ resp'.status = 400
              /\ resp'.errors = {"description"}
              /\ expenses' = expenses
        /\ (/\ ~Large(req.body.amount)
            /\ Le(Dec(0, 2), req.body.amount)
            /\ "description" \notin req.body.fields) =>
              /\ resp'.status = 201
              /\ expenses'[resp'.id].amount = req.body.amount
              /\ expenses'[resp'.id].description = None]_vars

C6_Witness ==
    /\ Answered("create")
    /\ req.body.amount = Dec(1000000, 1)
    /\ req.body.description = Some("")
    /\ req.body.date = today
    /\ resp.status = 400
    /\ resp.errors = {"description"}

\* C7: a create, PUT or PATCH whose date is after the current date answers
\* 400 with an error keyed on date and changes no record; the current date
\* itself raises no date error and is stored when the request succeeds.
C7_FutureDateRejected ==
    [][(Validating /\ "date" \in req.body.fields) =>
        /\ req.body.date > today =>
              /\ resp'.status = 400
              /\ "date" \in resp'.errors
              /\ expenses' = expenses
        /\ req.body.date = today =>
              /\ "date" \notin resp'.errors
              /\ resp'.errors = {} =>
                    /\ resp'.status \in {200, 201}
                    /\ expenses'[resp'.id].date = today]_vars

C7_Witness ==
    /\ Answered("partial_update")
    /\ today = 1
    /\ req.body.fields = {"date"}
    /\ req.body.date = today + 1
    /\ req.target \in DOMAIN expenses
    /\ expenses[req.target].date = 0
    /\ resp.status = 400
    /\ resp.errors = {"date"}

\* C8: a create, PUT or PATCH whose amount is <= 0 answers 400 with an error
\* keyed on amount and changes no record; every stored amount is at least
\* 0.01 and at most 99,999,999.99.
C8_AmountPositive ==
    /\ [](\A i \in DOMAIN expenses :
            Le(Dec(0, 1), expenses[i].amount) /\ Le(expenses[i].amount, MaxAmount))
    /\ [][(Validating /\ "amount" \in req.body.fields /\ Le(req.body.amount, Zero)) =>
            /\ resp'.status = 400
            /\ "amount" \in resp'.errors
            /\ expenses' = expenses]_vars

C8_Witness ==
    /\ Answered("update")
    /\ req.body.amount = Zero
    /\ req.target \in DOMAIN expenses
    /\ Lt(Zero, expenses[req.target].amount)
    /\ resp.status = 400
    /\ "amount" \in resp.errors

(***************************************************************************)
(* SpecAuth: logins, logouts and token refreshes for the two stored users, *)
(* the second of them active or disabled.                                  *)
(***************************************************************************)
Emails == {"ana@example.com", "bob@example.com", "nobody@example.com", "nobody"}

Passwords == {"Password123!", "Password456!"}

AuthRequests ==
    {Request("login", Anonymous, 0, EmptyBody, e, p, 0) : e \in Emails, p \in Passwords}
        \cup {Request("logout", by, 0, EmptyBody, "", "", t) :
                by \in Callers, t \in {0, -1} \cup DOMAIN outstanding}
        \cup {Request("refresh", Anonymous, 0, EmptyBody, "", "", t) :
                t \in {-1} \cup DOMAIN outstanding}

InitAuth ==
    /\ users \in {StoredUsers, [StoredUsers EXCEPT ![2].is_active = FALSE]}
    /\ expenses = <<>>
    /\ nextExpenseId = 1
    /\ today = 0
    /\ outstanding = <<>>
    /\ blacklist = {}
    /\ pc = "idle"
    /\ req = NoReq
    /\ resp = NoResp
    /\ flight = NoFlight

NextAuth ==
    \/ \E r \in AuthRequests : Receive(r, 0)
    \/ Login
    \/ Logout
    \/ RefreshAccess
    \/ Respond

SpecAuth == InitAuth /\ [][NextAuth]_vars

(***************************************************************************)
(* Properties of the session tokens (checked under SpecAuth).              *)
(***************************************************************************)
\* C4: a blacklisted refresh token stays blacklisted, and every attempt to
\* mint an access token with it is rejected.
C4_RevocationTerminal ==
    [][/\ blacklist \subseteq blacklist'
       /\ (pc = "pending" /\ req.op = "refresh" /\ req.refresh \in blacklist) =>
             /\ resp'.status = 401
             /\ resp'.access = 0]_vars

C4_Witness ==
    /\ Answered("refresh")
    /\ req.refresh \in blacklist
    /\ Cardinality(blacklist) = 2
    /\ resp.status = 401

\* C15: a login with a well-formed email no user holds, or with the email of
\* an active user and a wrong password, answers 401 and issues no tokens; with
\* an active user's email and password it answers 200 with an access token
\* bearing that user and a new refresh token recorded for that user.
C15_LoginStatuses ==
    [][(pc = "pending" /\ req.op = "login"
        /\ EmailValid(req.email) /\ req.password # "") =>
        LET known == {u \in DOMAIN users : users[u].email = req.email}
        IN  /\ (\/ known = {}
                \/ \E u \in known :
                      /\ users[u].is_active
                      /\ users[u].password # make_password(req.password)) =>
                  /\ resp'.status = 401
                  /\ resp'.access = 0 /\ resp'.refresh = 0
                  /\ outstanding' = outstanding
            /\ \A u \in known :
                  (users[u].is_active
                   /\ users[u].password = make_password(req.password)) =>
                      /\ resp'.status = 200
                      /\ resp'.access = u
                      /\ resp'.refresh \in DOMAIN outstanding' \ DOMAIN outstanding
                      /\ outstanding'[resp'.refresh] = u]_vars

C15_Witness ==
    /\ Answered("login")
    /\ req.email = "bob@example.com"
    /\ users[2].is_active
    /\ req.password = "Password123!"
    /\ resp.status = 401
    /\ outstanding # <<>>

\* C16: a login answers 403 exactly when the email and password are those of
\* a stored user and that user is inactive; then no tokens are issued.
C16_DisabledOnlyWithValidCredentials ==
    [][(pc = "pending" /\ req.op = "login") =>
        /\ resp'.status = 403 <=>
              \E u \in DOMAIN users :
                  /\ users[u].email = req.email
                  /\ users[u].password = make_password(req.password)
                  /\ ~users[u].is_active
        /\ resp'.status = 403 => outstanding' = outstanding]_vars

\* What the code does give: 403 exactly when the email is that of an inactive
\* user, whatever the password.
DisabledWhateverPassword ==
    [][(pc = "pending" /\ req.op = "login"
        /\ EmailValid(req.email) /\ req.password # "") =>
        /\ resp'.status = 403 <=>
              \E u \in DOMAIN users : users[u].email = req.email /\ ~users[u].is_active
        /\ resp'.status = 403 => outstanding' = outstanding]_vars

\* C17: a logout by an authenticated caller with a valid refresh token not
\* yet revoked answers 205 and adds exactly that token to the blacklist; with
\* no token or a malformed one it answers 400, and without authentication
\* 401, the blacklist unchanged in both cases.
C17_LogoutStatuses ==
    [][(pc = "pending" /\ req.op = "logout") =>
        /\ (/\ IsAuthenticated(users, req.by)
            /\ req.refresh \in DOMAIN outstanding \ blacklist) =>
              /\ resp'.status = 205
              /\ blacklist' = blacklist \cup {req.refresh}
        /\ (IsAuthenticated(users, req.by) /\ req.refresh \in {0, -1}) =>
              /\ resp'.status = 400
              /\ blacklist' = blacklist
        /\ ~IsAuthenticated(users, req.by) =>
              /\ resp'.status = 401
              /\ blacklist' = blacklist]_vars

C17_Witness ==
    /\ Answered("logout")
    /\ req.refresh = -1
    /\ IsAuthenticated(users, req.by)
    /\ blacklist # {}
    /\ resp.status = 400

(***************************************************************************)
(* SpecRegister: registrations over stored, case-varied, new and malformed *)
(* emails, strong and weak passwords, matching or not, with a field        *)
(* missing or extra flags in the body; and create_superuser calls passing  *)
(* each flag as true, as false or not at all.                              *)
(***************************************************************************)
RegisterFields == {"email", "password", "password2", "first_name", "last_name"}

Flags == {"is_staff", "is_superuser", "is_active"}

RegisterEmails == {"ana@example.com", "ana@EXAMPLE.com", "Cy@Example.com", "nobody"}

RegisterPasswords == {"Secure123!", "123"}

RegisterForms ==
    {UserForm(fs, e, p, p2, "Cy", "Doe", FALSE, TRUE, TRUE, 0) :
        fs \in {RegisterFields, RegisterFields \ {"last_name"}, RegisterFields \cup Flags},
        e \in RegisterEmails, p \in RegisterPasswords, p2 \in RegisterPasswords}

SuperuserForms ==
    {UserForm({"email", "password", "first_name", "last_name"} \cup fs,
              e, "Admin123!", "", "Admin", "User",
              "is_active" \in on, "is_staff" \in on, "is_superuser" \in on, 0) :
        e \in {"root@Example.com", "ana@example.com", ""},
        fs \in SUBSET Flags, on \in SUBSET Flags}

RegisterRequests ==
    {Request("register", Anonymous, 0, f, "", "", 0) : f \in RegisterForms}
        \cup {Request("create_superuser", Anonymous, 0, f, "", "", 0) :
                f \in SuperuserForms}

NextRegister ==
    \/ \E r \in RegisterRequests : Receive(r, 0)
    \/ Register
    \/ CreateSuperuser
    \/ Respond

SpecRegister == Init /\ [][NextRegister]_vars

(***************************************************************************)
(* Properties of registration (checked under SpecRegister).                *)
(***************************************************************************)
\* The body of a registration is complete and, apart from password2, valid:
\* every field present and non-empty, a well-formed email no user holds, a
\* password of at least 8 characters.
OtherFieldsValid(form) ==
    /\ RegisterFields \subseteq form.fields
    /\ \A f \in RegisterFields : form[f] # ""
    /\ EmailValid(form.email)
    /\ \A u \in DOMAIN users : users[u].email # form.email
    /\ Len(form.password) >= 8

\* C12 as stated: a registration whose password and password2 differ answers
\* 400 with an error keyed on password, stores no user and issues no tokens.
C12_PasswordMismatch_AsStated ==
    [][(pc = "pending" /\ req.op = "register"
        /\ req.body.password # req.body.password2) =>
            /\ resp'.status = 400
            /\ "password" \in resp'.errors
            /\ users' = users
            /\ outstanding' = outstanding
            /\ resp'.access = 0 /\ resp'.refresh = 0]_vars

\* C12: a registration whose password and password2 differ answers 400,
\* stores no user and issues no tokens; when its other fields are valid the
\* only error is keyed on password.
C12_PasswordMismatch ==
    [][(pc = "pending" /\ req.op = "register"
        /\ "password" \in req.body.fields /\ "password2" \in req.body.fields
        /\ req.body.password # req.body.password2) =>
            /\ resp'.status = 400
            /\ users' = users
            /\ outstanding' = outstanding
            /\ resp'.access = 0 /\ resp'.refresh = 0
            /\ OtherFieldsValid(req.body) => resp'.errors = {"password"}]_vars

C12_Witness ==
    /\ Answered("register")
    /\ req.body.email = "Cy@Example.com"
    /\ req.body.password = "Secure123!"
    /\ req.body.password2 = "123"
    /\ req.body.fields = RegisterFields
    /\ resp.status = 400
    /\ resp.errors = {"password"}
    /\ DOMAIN users = UserIds

\* C13: a registration, valid otherwise, of an email that equals a stored
\* email once its domain is lower-cased answers 400 with an error keyed on
\* email and stores no user.
C13_DuplicateAfterNormalizing ==
    [][(pc = "pending" /\ req.op = "register"
        /\ RegisterFields \subseteq req.body.fields
        /\ Len(req.body.password) >= 8
        /\ req.body.password = req.body.password2
        /\ \E u \in DOMAIN users : users[u].email = normalize_email(req.body.email)) =>
            /\ resp'.status = 400
            /\ "email" \in resp'.errors
            /\ users' = users]_vars

\* What the code does give for such an email: no user is stored, and the
\* answer is a 400 keyed on email when the email is stored letter for letter,
\* a 500 otherwise.
DuplicateNeverStored ==
    [][(pc = "pending" /\ req.op = "register"
        /\ RegisterFields \subseteq req.body.fields
        /\ Len(req.body.password) >= 8
        /\ req.body.password = req.body.password2
        /\ \E u \in DOMAIN users : users[u].email = normalize_email(req.body.email)) =>
            /\ users' = users
            /\ IF \E u \in DOMAIN users : users[u].email = req.body.email
               THEN resp'.status = 400 /\ resp'.errors = {"email"}
               ELSE resp'.status = 500]_vars

\* C20: create_superuser returns a user whose is_staff, is_superuser and
\* is_active are all true, and raises without storing a user whenever one of
\* the three flags is passed as false.
C20_SuperuserFlags ==
    [][(pc = "pending" /\ req.op = "create_superuser") =>
        /\ resp'.errors = {} =>
              /\ resp'.id \in DOMAIN users' \ DOMAIN users
              /\ users'[resp'.id].is_staff
              /\ users'[resp'.id].is_superuser
              /\ users'[resp'.id].is_active
        /\ (\E f \in Flags \cap req.body.fields : req.body[f] = FALSE) =>
              /\ resp'.errors # {}
              /\ users' = users]_vars

\* What the code does give: a returned superuser has is_staff and
\* is_superuser true, and is_active as the caller passed it.
SuperuserStaffOnly ==
    [][(pc = "pending" /\ req.op = "create_superuser") =>
        /\ resp'.errors = {} =>
              /\ users'[resp'.id].is_staff
              /\ users'[resp'.id].is_superuser
              /\ users'[resp'.id].is_active = Given(req.body, "is_active", TRUE)
        /\ (\E f \in {"is_staff", "is_superuser"} \cap req.body.fields :
                req.body[f] = FALSE) =>
              /\ resp'.errors = {"ValueError"}
              /\ users' = users]_vars

(***************************************************************************)
(* SpecRace: two workers serving registrations and profile email changes   *)
(* for the same emails at the same time, the check of one between the      *)
(* check and the save of the other.                                        *)
(***************************************************************************)
RaceEmails == {"cy@example.com", "cy@EXAMPLE.com", "bob@example.com"}

RaceRequests ==
    {Request("register", Anonymous, 0,
             UserForm(RegisterFields, e, "Secure123!", "Secure123!", "Cy", "Doe",
                      TRUE, FALSE, FALSE, 0), "", "", 0) : e \in RaceEmails}
        \cup {Request("partial_update_profile", by, 0,
                      UserForm({"email"}, e, "", "", "", "", TRUE, FALSE, FALSE, 0),
                      "", "", 0) : by \in Callers, e \in RaceEmails}

NextRace ==
    \/ \E w \in Workers, r \in RaceRequests : RegisterIsValid(w, r)
    \/ \E w \in Workers : RegisterSave(w)
    \/ \E w \in Workers, r \in RaceRequests : ProfileIsValid(w, r)
    \/ \E w \in Workers : ProfileSave(w)
    \/ \E w \in Workers : Finish(w)

SpecRace == Init /\ [][NextRace]_vars

(***************************************************************************)
(* Properties of concurrent requests (checked under SpecRace).             *)
(***************************************************************************)
\* C14: no two stored users have the same email, also when registrations and
\* profile email changes for one email run concurrently with their
\* uniqueness checks and writes interleaved.
C14_EmailsUnique ==
    \A u, v \in DOMAIN users : u # v => users[u].email # users[v].email

\* Both workers passed the uniqueness check for one email before either
\* wrote; the first write went through and the second was refused.
C14_Witness ==
    /\ flight[1].pc = "done" /\ flight[2].pc = "done"
    /\ flight[1].req.op = "register"
    /\ flight[2].req.op = "partial_update_profile"
    /\ flight[1].req.body.email = flight[2].req.body.email
    /\ {flight[1].resp.status, flight[2].resp.status} = {201, 500}
        \/ {flight[1].resp.status, flight[2].resp.status} = {200, 500}
    /\ \E w \in Workers : flight[w].resp.errors = {"IntegrityError"}

(***************************************************************************)
(* SpecProfile: PUTs and PATCHes on /auth/me by either user or by nobody,  *)
(* with bodies naming writable and read-only fields.                       *)
(***************************************************************************)
ProfileFieldSets ==
    {{"email", "first_name", "last_name"}, {"email"}, {"first_name"},
     {"date_joined"}, {"is_active"},
     {"email", "first_name", "last_name", "date_joined", "is_active"}}

ProfileForms ==
    {UserForm(fs, e, "", "", n, "User", FALSE, TRUE, TRUE, 5) :
        fs \in ProfileFieldSets,
        e \in {"new@example.com", "bob@example.com", "bad"},
        n \in {"Zed", ""}}

ProfileRequests ==
    {Request(op, by, 0, f, "", "", 0) :
        op \in {"update_profile", "partial_update_profile"},
        by \in Callers, f \in ProfileForms}

NextProfile ==
    \/ \E r \in ProfileRequests : Receive(r, 0)
    \/ UpdateProfile
    \/ PartialUpdateProfile
    \/ Respond

SpecProfile == Init /\ [][NextProfile]_vars

(***************************************************************************)
(* Properties of the profile endpoint (checked under SpecProfile).         *)
(***************************************************************************)
ProfileRequest ==
    pc = "pending" /\ req.op \in {"update_profile", "partial_update_profile"}

\* C18: a PUT or PATCH on /auth/me changes no record but the caller's, and
\* changes neither the email nor the date joined of any record, whatever the
\* body supplies for them.
C18_ProfileReadOnlyFields ==
    [][ProfileRequest =>
        /\ DOMAIN users' = DOMAIN users
        /\ \A u \in DOMAIN users :
              /\ u # req.by => users'[u] = users[u]
              /\ users'[u].email = users[u].email
              /\ users'[u].date_joined = users[u].date_joined]_vars

\* What the code does give: only the caller's record changes, and of it only
\* email, first_name, last_name and is_active, each to the submitted value.
ProfileWritableFields ==
    [][ProfileRequest =>
        /\ DOMAIN users' = DOMAIN users
        /\ \A u \in DOMAIN users :
              /\ u # req.by => users'[u] = users[u]
              /\ users'[u].date_joined = users[u].date_joined
              /\ users'[u].password = users[u].password
              /\ users'[u].is_staff = users[u].is_staff
              /\ users'[u].is_superuser = users[u].is_superuser
        /\ resp'.status = 200 =>
              \A f \in {"email", "first_name", "last_name", "is_active"} :
                  users'[req.by][f] = Given(req.body, f, users[req.by][f])]_vars

(***************************************************************************)
(* SpecPassword: change-password requests by either user or by nobody,     *)
(* with right and wrong old passwords and new passwords that match or not, *)
(* weak, new, or equal to the old one.                                     *)
(***************************************************************************)
PasswordFields == {"old_password", "new_password", "new_password2"}

PasswordForms ==
    {PasswordForm(fs, old, new, new2) :
        fs \in {PasswordFields, PasswordFields \ {"new_password2"}},
        old \in {"Password123!", "Password456!"},
        new \in {"Password123!", "NewPass789!", "123"},
        new2 \in {"Password123!", "NewPass789!"}}

PasswordRequests ==
    {Request("change_password", by, 0, f, "", "", 0) :
        by \in Callers, f \in PasswordForms}

NextPassword ==
    \/ \E r \in PasswordRequests : Receive(r, 0)
    \/ ChangePassword
    \/ Respond

SpecPassword == Init /\ [][NextPassword]_vars

(***************************************************************************)
(* Properties of change-password (checked under SpecPassword).             *)
(***************************************************************************)
\* A change-password request that reaches the view with its three fields.
ChangingPassword ==
    /\ pc = "pending"
    /\ req.op = "change_password"
    /\ IsAuthenticated(users, req.by)
    /\ PasswordFields \subseteq req.body.fields

\* C19 as stated: with a wrong old password or new_password # new_password2
\* the answer is 400 and the old password still verifies; on a 200 the new
\* password verifies, the old one does not, and no other user changed.
C19_ChangePassword_AsStated ==
    [][ChangingPassword =>
        LET stored == users[req.by].password
            f == req.body
        IN  /\ (~check_password(f.old_password, stored)
                    \/ f.new_password # f.new_password2) =>
                  /\ resp'.status = 400
                  /\ users' = users
            /\ resp'.status = 200 =>
                  /\ check_password(f.new_password, users'[req.by].password)
                  /\ ~check_password(f.old_password, users'[req.by].password)
                  /\ \A u \in DOMAIN users \ {req.by} : users'[u] = users[u]]_vars

\* C19: with a wrong old password or new_password # new_password2 the answer
\* is 400 and the stored credentials are unchanged; on a 200 the new password
\* verifies, the old one does not unless the new one equals it, and nothing
\* but the caller's credential changed.
C19_ChangePassword ==
    [][ChangingPassword =>
        LET stored == users[req.by].password
            f == req.body
        IN  /\ (~check_password(f.old_password, stored)
                    \/ f.new_password # f.new_password2) =>
                  /\ resp'.status = 400
                  /\ users' = users
            /\ resp'.status = 200 =>
                  /\ check_password(f.old_password, stored)
                  /\ check_password(f.new_password, users'[req.by].password)
                  /\ f.new_password # f.old_password =>
                        ~check_password(f.old_password, users'[req.by].password)
                  /\ users' = [users EXCEPT
                                  ![req.by].password = users'[req.by].password]]_vars

C19_Witness ==
    /\ Answered("change_password")
    /\ resp.status = 200
    /\ req.by = 2
    /\ req.body.old_password = "Password123!"
    /\ req.body.new_password = "NewPass789!"
    /\ check_password("NewPass789!", users[2].password)
    /\ ~check_password("Password123!", users[2].password)
    /\ check_password("Password123!", users[1].password)

(***************************************************************************)
(* SpecFilter: user 1 (and, with one body, user 2) creating expenses dated  *)
(* today and 7, 8, 30, 31, 90 and 91 days before day 0, both users listing  *)
(* them with query parameters, and the date moving on.                      *)
(***************************************************************************)
MaxFilterExpenses == 2

FilterDates == {0, -7, -8, -30, -31, -90, -91}

FilterBodies ==
    {Body(FullFields, 0, "t", Dec(100, 0), "GROCERIES", Some("x"), d) : d \in FilterDates}
        \cup {Body(FullFields, 0, "t", Dec(100, 0), "LEISURE", Some("x"), 0),
              Body(FullFields, 0, "t", Dec(500, 0), "GROCERIES", Some("x"), 0),
              Body(FullFields, 0, "t", Dec(500, 0), "LEISURE", Some("x"), -8)}

NoQuery == Query({}, "", 0, 0, Zero, Zero, "")

FilterQueries ==
    {[NoQuery EXCEPT !.fields = {"category"}, !.category = c] :
        c \in {"GROCERIES", "LEISURE", "", "NOPE"}}
    \cup {[NoQuery EXCEPT !.fields = {"start_date"}, !.start_date = d] : d \in {-7, 0}}
    \cup {[NoQuery EXCEPT !.fields = {"end_date"}, !.end_date = d] : d \in {-8, 0}}
    \cup {[NoQuery EXCEPT !.fields = {"min_amount"}, !.min_amount = a] :
            a \in {Dec(100, 0), Dec(100, 1)}}
    \cup {[NoQuery EXCEPT !.fields = {"max_amount"}, !.max_amount = a] :
            a \in {Dec(100, 0), Dec(499, 99)}}
    \cup {[NoQuery EXCEPT !.fields = {"period"}, !.period = p] :
            p \in {"week", "month", "3months", "year", ""}}
    \cup {Query({"period", "start_date"}, "", d, 0, Zero, Zero, p) :
            d \in {-8, -30}, p \in {"week", "month"}}
    \cup {Query({"start_date", "end_date"}, "", -30, -7, Zero, Zero, ""),
          Query({"category", "min_amount", "max_amount"}, "LEISURE", 0, 0,
                Dec(100, 0), Dec(100, 0), ""),
          Query({"category", "start_date", "end_date", "min_amount", "max_amount",
                 "period"},
                "GROCERIES", -31, -7, Dec(100, 0), Dec(500, 0), "month")}

FilterRequests ==
    {Request("create", 1, 0, b, "", "", 0) : b \in FilterBodies}
        \cup {Request("create", 2, 0,
                      Body(FullFields, 0, "t", Dec(100, 0), "GROCERIES", Some("x"), 0),
                      "", "", 0)}
        \cup {Request("list", by, 0, q, "", "", 0) : by \in UserIds, q \in FilterQueries}
        \cup {Request("list", Anonymous, 0, NoQuery, "", "", 0)}

NextFilter ==
    \/ \E r \in FilterRequests : Receive(r, MaxFilterExpenses)
    \/ CreateExpense
    \/ ListExpenses
    \/ Respond
    \/ Tick

SpecFilter == Init /\ [][NextFilter]_vars

(***************************************************************************)
(* Properties of the list filters (checked under SpecFilter).              *)
(***************************************************************************)
\* The ids of the rows of a list answer.
Returned == {resp.results[k].id : k \in DOMAIN resp.results}

Has(f) == f \in req.body.fields

\* C21: a list answered 200 returns an owned expense iff it satisfies every
\* supplied parameter (category equal, start_date <= date <= end_date,
\* min_amount <= amount <= max_amount, date not before the period's first
\* day), all bounds inclusive; it returns no expense of another user.
C21_FiltersConjoin ==
    (Answered("list") /\ resp.status = 200) =>
        \A i \in DOMAIN expenses :
            (i \in Returned) <=>
                /\ expenses[i].user = req.by
                /\ (Has("category") /\ req.body.category # "") =>
                        expenses[i].category = req.body.category
                /\ Has("start_date") => req.body.start_date <= expenses[i].date
                /\ Has("end_date") => expenses[i].date <= req.body.end_date
                /\ Has("min_amount") => Le(req.body.min_amount, expenses[i].amount)
                /\ Has("max_amount") => Le(expenses[i].amount, req.body.max_amount)
                /\ (Has("period") /\ req.body.period \in DOMAIN PeriodDays) =>
                        today - PeriodDays[req.body.period] <= expenses[i].date

\* A list with period=week and start_date 8 days back has answered: of the
\* caller's expenses dated today, 7 and 8 days ago only the first two are
\* returned; and one with both amount bounds equal to a stored amount has
\* returned that expense.
C21_Witness ==
    /\ Answered("list") /\ resp.status = 200
    /\ \/ /\ req.body.fields = {"period", "start_date"}
          /\ req.body.period = "week"
          /\ req.body.start_date = today - 8
          /\ \E i \in OwnedBy(expenses, req.by) :
                expenses[i].date = today - 8 /\ i \notin Returned
          /\ \E i \in OwnedBy(expenses, req.by) :
                expenses[i].date = today - 7 /\ i \in Returned
       \/ /\ {"min_amount", "max_amount"} \subseteq req.body.fields
          /\ req.body.min_amount = req.body.max_amount
          /\ \E i \in Returned : expenses[i].amount = req.body.min_amount
          /\ OwnedBy(expenses, req.by) \ Returned # {}

\* C22: period=week returns only expenses dated within the last 7 days
\* counting today (today-6 .. today), month the last 30 and 3months the last
\* 90; a list with any other period value is answered 200 with the rows the
\* same request without the period parameter returns.
C22_PeriodWindow ==
    (Answered("list") /\ resp.status = 200 /\ Has("period")) =>
        IF req.body.period \in DOMAIN PeriodDays
        THEN \A i \in Returned :
                /\ expenses[i].date <= today
                /\ today - expenses[i].date < PeriodDays[req.body.period]
        ELSE Returned = filter_queryset(expenses, get_queryset(expenses, req.by),
                                        [req.body EXCEPT !.fields = @ \ {"period"}],
                                        today)

\* What the code does instead: the window of a period of n days reaches back
\* to the day n days before today, that day included (n + 1 dates).
PeriodWindowInclusive ==
    (Answered("list") /\ resp.status = 200 /\ Has("period")) =>
        IF req.body.period \in DOMAIN PeriodDays
        THEN \A i \in OwnedBy(expenses, req.by) :
                (i \in filter_queryset(expenses, get_queryset(expenses, req.by),
                                       [req.body EXCEPT !.fields = @ \ {"period"}],
                                       today)
                 /\ today - expenses[i].date <= PeriodDays[req.body.period])
                    <=> i \in Returned
        ELSE Returned = filter_queryset(expenses, get_queryset(expenses, req.by),
                                        [req.body EXCEPT !.fields = @ \ {"period"}],
                                        today)

\* A list with an unknown period value has answered 200 with every expense
\* of the caller, one of them older than 90 days.
UnknownPeriodIgnored ==
    /\ Answered("list") /\ resp.status = 200
    /\ req.body.fields = {"period"} /\ req.body.period = "year"
    /\ Returned = OwnedBy(expenses, req.by)
    /\ \E i \in Returned : today - expenses[i].date > 90

(***************************************************************************)
(* Properties of the default order of the list (checked under Spec).       *)
(***************************************************************************)
\* The ids of the rows of a list answer, in the order of the answer.
ReturnedOrder == [k \in DOMAIN resp.results |-> resp.results[k].id]

\* C23: a list without ordering parameter returns the caller's expenses by
\* descending date and, among expenses of one date, by descending creation
\* time, which is the order of the model's default query.
C23_DefaultOrder ==
    (Answered("list") /\ resp.status = 200) =>
        ReturnedOrder = MetaOrdering(expenses, OwnedBy(expenses, req.by))

\* What the list endpoint guarantees: descending date, nothing about rows of
\* one date.
ListByDateOnly ==
    (Answered("list") /\ resp.status = 200) =>
        \A j, k \in DOMAIN ReturnedOrder :
            j < k => expenses[ReturnedOrder[j]].date >= expenses[ReturnedOrder[k]].date

\* A list has returned two expenses of one date, the older one first.
OlderFirstAmongEqualDates ==
    /\ Answered("list") /\ resp.status = 200
    /\ \E j, k \in DOMAIN ReturnedOrder :
          /\ j < k
          /\ expenses[ReturnedOrder[j]].date = expenses[ReturnedOrder[k]].date
          /\ created_at(expenses, ReturnedOrder[j]) < created_at(expenses, ReturnedOrder[k])

(***************************************************************************)
(* SpecRevoke: users logging in, and two workers serving logouts and       *)
(* refreshes of the issued tokens at the same time, the blacklist check of *)
(* one between the check and the blacklist write of the other.             *)
(***************************************************************************)
RevokeRequests ==
    {Request("logout", by, 0, EmptyBody, "", "", t) :
        by \in {Anonymous, 1}, t \in 0..MaxTokens}
        \cup {Request("refresh", Anonymous, 0, EmptyBody, "", "", t) : t \in 1..MaxTokens}

RevokeLogins ==
    {Request("login", Anonymous, 0, EmptyBody, "ana@example.com", "Password123!", 0),
     Request("login", Anonymous, 0, EmptyBody, "bob@example.com", "Password456!", 0)}

NextRevoke ==
    \/ \E r \in RevokeLogins : Receive(r, 0)
    \/ Login
    \/ Respond
    \/ \E w \in Workers, r \in RevokeRequests : LogoutVerify(w, r)
    \/ \E w \in Workers : LogoutBlacklist(w)
    \/ \E w \in Workers, r \in RevokeRequests : RefreshVerify(w, r)
    \/ \E w \in Workers : RefreshIssue(w)
    \/ \E w \in Workers : Finish(w)

SpecRevoke == Init /\ [][NextRevoke]_vars

(***************************************************************************)
(* Properties of concurrent logout and refresh (checked under SpecRevoke). *)
(***************************************************************************)
\* Worker w takes up a refresh request in this step and checks the blacklist.
RefreshChecks(w) ==
    /\ flight[w].pc = "idle"
    /\ flight'[w].pc # "idle"
    /\ flight'[w].req.op = "refresh"

\* C24: a blacklist write is never undone, and in every interleaving of
\* logouts and refreshes a refresh whose blacklist check comes after a
\* logout's write of its token is rejected (401, no access token).
C24_RevocationReadAfterWrite ==
    [][/\ blacklist \subseteq blacklist'
       /\ \A w \in Workers :
            (RefreshChecks(w) /\ flight'[w].req.refresh \in blacklist) =>
                /\ flight'[w].pc = "done"
                /\ flight'[w].resp.status = 401
                /\ flight'[w].resp.access = 0]_vars

\* One worker has answered a logout 205 and, still holding that answer, the
\* other has rejected a refresh of the same token.
C24_Witness ==
    \E w, o \in Workers :
        /\ w # o
        /\ flight[o].pc = "done" /\ flight[o].req.op = "logout"
        /\ flight[o].resp.status = 205
        /\ flight[w].pc = "done" /\ flight[w].req.op = "refresh"
        /\ flight[w].req.refresh = flight[o].req.refresh
        /\ flight[w].resp.status = 401

\* A refresh that checked the blacklist before the logout's write is still
\* answered after it: check and use of the token are not one atomic step.
RefreshCheckedBeforeWrite ==
    \E w \in Workers :
        /\ flight[w].pc = "done" /\ flight[w].req.op = "refresh"
        /\ flight[w].resp.status = 200
        /\ flight[w].req.refresh \in blacklist

(***************************************************************************)
(* SpecUpdateRace: user 1 creating expenses, and two workers serving PUT   *)
(* and PATCH requests on them at the same time, the read of one between    *)
(* the read and the save of the other.                                     *)
(***************************************************************************)
MaxRaceExpenses == 1

RaceBody == Body(FullFields, 0, "t", Dec(100, 0), "GROCERIES", Some("x"), 0)

RacePatches ==
    {Body({"title"}, 0, "n", Zero, "", None, 0),
     Body({"category"}, 0, "", Zero, "LEISURE", None, 0),
     Body({"category"}, 0, "", Zero, "NOPE", None, 0)}

UpdateRaceRequests ==
    {Request("partial_update", 1, t, b, "", "", 0) :
        t \in 1..MaxRaceExpenses, b \in RacePatches}
        \cup {Request("update", by, 1, RaceBody, "", "", 0) : by \in Callers}

NextUpdateRace ==
    \/ Receive(Request("create", 1, 0, RaceBody, "", "", 0), MaxRaceExpenses)
    \/ CreateExpense
    \/ Respond
    \/ \E w \in Workers, r \in UpdateRaceRequests : ExpenseIsValid(w, r)
    \/ \E w \in Workers : ExpenseSave(w)
    \/ \E w \in Workers : Finish(w)

SpecUpdateRace == Init /\ [][NextUpdateRace]_vars

(***************************************************************************)
(* Properties of concurrent updates (checked under SpecUpdateRace).        *)
(***************************************************************************)
IsUpdate(f) == f.req.op \in {"update", "partial_update"}

\* Worker w saves in this step while worker o holds the 200 of an update of
\* the same expense.
SavesAfter(w, o) ==
    /\ w # o
    /\ flight[w].pc = "valid" /\ IsUpdate(flight[w]) /\ flight'[w].pc = "done"
    /\ flight[o].pc = "done" /\ IsUpdate(flight[o]) /\ flight[o].resp.status = 200
    /\ flight[o].req.target = flight[w].req.target

\* C25: when two update requests on one expense have both been saved, the
\* stored record is the record read by the first, with the two requests
\* applied one after the other in one of the two orders.
C25_UpdatesSerialized ==
    [][\A w, o \in Workers :
        SavesAfter(w, o) =>
            LET start == The(flight[o].instance)
                a == flight[o].req.body
                b == flight[w].req.body
            IN  expenses'[flight[w].req.target] \in
                    {ModelSerializer_update(ModelSerializer_update(start, a), b),
                     ModelSerializer_update(ModelSerializer_update(start, b), a)}]_vars

\* What the code does instead: the row after a save is the row its request
\* read, with only its own fields changed.
LastSaveWins ==
    [][\A w \in Workers :
        (flight[w].pc = "valid" /\ IsUpdate(flight[w]) /\ flight'[w].pc = "done") =>
            expenses'[flight[w].req.target] =
                ModelSerializer_update(The(flight[w].instance), flight[w].req.body)]_vars

\* Two PATCHes on different fields of one expense have both answered 200 and
\* the stored record has the new value of one field only.
LostUpdate ==
    \E w, o \in Workers :
        /\ w # o
        /\ flight[w].pc = "done" /\ flight[w].resp.status = 200
        /\ flight[o].pc = "done" /\ flight[o].resp.status = 200
        /\ flight[w].req.op = "partial_update" /\ flight[w].req.body.fields = {"title"}
        /\ flight[o].req.op = "partial_update" /\ flight[o].req.body.fields = {"category"}
        /\ flight[w].req.target = flight[o].req.target
        /\ expenses[flight[w].req.target].title = flight[w].req.body.title
        /\ expenses[flight[w].req.target].category # flight[o].req.body.category

(***************************************************************************)
(* Ownership over time (checked under Spec).                               *)
(***************************************************************************)
\* C26: no step changes the owner of a stored expense, whoever sends the PUT
\* or PATCH and whatever user value its body carries.
C26_OwnerNeverChanges ==
    [][\A i \in DOMAIN expenses \cap DOMAIN expenses' :
        expenses'[i].user = expenses[i].user]_vars

\* A PUT or PATCH whose body names another user as owner has been answered
\* 200 and the expense is still the caller's.
C26_Witness ==
    /\ pc = "done" /\ req.op \in {"update", "partial_update"}
    /\ resp.status = 200
    /\ "user" \in req.body.fields
    /\ req.body.user # req.by
    /\ expenses[req.target].user = req.by

(***************************************************************************)
(* Whose tokens a logout revokes (checked under SpecAuth).                 *)
(***************************************************************************)
\* C27: every token a logout adds to the blacklist was issued to the caller
\* of that logout.
C27_LogoutRevokesOwnTokenOnly ==
    [][Handling("logout") =>
        \A t \in blacklist' \ blacklist : outstanding[t] = req.by]_vars

\* What the code guarantees: a logout blacklists at most the token it was
\* handed.
LogoutRevokesSubmittedTokenOnly ==
    [][Handling("logout") => blacklist' \ blacklist \subseteq {req.refresh}]_vars

\* A logout by one user with a token issued to another has answered 205 and
\* the token is blacklisted.
OtherUsersTokenRevoked ==
    /\ Answered("logout") /\ resp.status = 205
    /\ outstanding[req.refresh] # req.by
    /\ req.refresh \in blacklist

(***************************************************************************)
(* SpecSelfService: the five self-service endpoints together: one          *)
(* registration, logins and logouts of the stored users, PATCHes on        *)
(* /auth/me naming is_active, is_staff and is_superuser, and password      *)
(* changes.                                                                *)
(***************************************************************************)
SelfServiceRequests ==
    {Request("register", Anonymous, 0,
             UserForm(RegisterFields \cup Flags, "cy@example.com", "Secure123!",
                      "Secure123!", "Cy", "Doe", FALSE, TRUE, TRUE, 0), "", "", 0)}
        \cup {Request("login", Anonymous, 0, EmptyBody, e, p, 0) :
                e \in {"ana@example.com", "bob@example.com"},
                p \in {"Password123!", "NewPass789!"}}
        \cup {Request("logout", 1, 0, EmptyBody, "", "", t) : t \in 1..MaxTokens}
        \cup {Request("partial_update_profile", by, 0,
                      UserForm(fs, "", "", "", "Zed", "", on, ~on, ~on, 0), "", "", 0) :
                by \in UserIds, fs \in {Flags, {"is_active"}, {"first_name"}},
                on \in BOOLEAN}
        \cup {Request("change_password", 1, 0,
                      PasswordForm(PasswordFields, "Password123!", "NewPass789!",
                                   "NewPass789!"), "", "", 0)}

NextSelfService ==
    \/ \E r \in SelfServiceRequests : Receive(r, 0)
    \/ Register
    \/ Login
    \/ Logout
    \/ PartialUpdateProfile
    \/ ChangePassword
    \/ Respond

SpecSelfService == Init /\ [][NextSelfService]_vars

(***************************************************************************)
(* Properties of the account flags (checked under SpecSelfService).        *)
(***************************************************************************)
\* C28: no step of a self-service request removes a user or changes a
\* user's is_active, is_staff or is_superuser.
C28_FlagsNeverChange ==
    [][\A u \in DOMAIN users :
        /\ u \in DOMAIN users'
        /\ users'[u].is_active = users[u].is_active
        /\ users'[u].is_staff = users[u].is_staff
        /\ users'[u].is_superuser = users[u].is_superuser]_vars

\* What the code guarantees: is_staff and is_superuser never change, and
\* is_active changes only by a request of that user on /auth/me.
StaffFlagsNeverChange ==
    [][\A u \in DOMAIN users :
        /\ u \in DOMAIN users'
        /\ users'[u].is_staff = users[u].is_staff
        /\ users'[u].is_superuser = users[u].is_superuser
        /\ users'[u].is_active # users[u].is_active =>
                Handling("partial_update_profile") /\ req.by = u]_vars

\* A login with the stored email and the current password of a user who
\* deactivated their own account on /auth/me has been answered 403.
LockedOut ==
    /\ Answered("login") /\ resp.status = 403
    /\ \E u \in DOMAIN users :
          /\ users[u].email = req.email
          /\ check_password(req.password, users[u].password)
          /\ ~users[u].is_active

(***************************************************************************)
(* Totals beyond ten digits (checked under SpecStats).                     *)
(***************************************************************************)
\* C29: stats by an authenticated caller always answers 200 with the exact
\* sum of the caller's amounts, also when that sum is above 99,999,999.99.
C29_StatsExactTotal ==
    (Answered("stats") /\ IsAuthenticated(users, req.by)) =>
        /\ resp.status = 200
        /\ resp.stats.total_amount = SumAmounts(expenses, OwnedBy(expenses, req.by))

\* What the code does instead: it answers 500 exactly when the total does
\* not fit the ten digits of total_amount, and the exact total otherwise.
StatsFailsBeyondTenDigits ==
    (Answered("stats") /\ IsAuthenticated(users, req.by)) =>
        LET total == SumAmounts(expenses, OwnedBy(expenses, req.by))
        IN  IF Le(total, StatsMaxValue)
            THEN resp.status = 200 /\ resp.stats.total_amount = total
            ELSE resp.status = 500

\* Stats over two expenses of 99,999,999.99 has been answered 500.
StatsOverflowed ==
    /\ Answered("stats") /\ resp.status = 500
    /\ \E i, j \in OwnedBy(expenses, req.by) :
          i # j /\ expenses[i].amount = MaxAmount /\ expenses[j].amount = MaxAmount

(***************************************************************************)
(* The large-amount rule on a partial update (checked under SpecValid).    *)
(***************************************************************************)
\* A PATCH of the amount alone, within the field's limits, on an expense of
\* the caller.
AmountOnlyPatch ==
    /\ Validating
    /\ req.op = "partial_update"
    /\ req.body.fields = {"amount"}
    /\ AmountField(req.body.amount)

\* C30: a PATCH of the amount alone is judged on the merged record: with an
\* amount above 1,000,000 and a non-empty stored description it is accepted
\* and the amount is stored.
C30_PatchJudgedOnMergedRecord ==
    [][(AmountOnlyPatch /\ Large(req.body.amount)
           /\ Truthy(expenses[req.target].description)) =>
        /\ resp'.status = 200
        /\ expenses'[req.target].amount = req.body.amount]_vars

\* What the code does instead: a PATCH of a large amount alone is rejected
\* with a description error whatever description is stored.
LargeAmountPatchNeedsDescription ==
    [][(AmountOnlyPatch /\ Large(req.body.amount)) =>
        /\ resp'.status = 400
        /\ resp'.errors = {"description"}
        /\ expenses' = expenses]_vars

====
